---- MODULE Spec2Model ----
(***************************************************************************)
(* A model of MultiAgentOrchestrator (src/orchestrator.py): the RunState   *)
(* dictionary, the phase sequence of execute() and the results the four    *)
(* agents hand back to it.  The language model behind the agents and the   *)
(* progress callback are the environment: what they return, and whether    *)
(* they raise, is chosen nondeterministically from small sets.             *)
(***************************************************************************)
EXTENDS Integers, Sequences, FiniteSets, TLC

\* Longest task list a plan of the model holds.
MaxTasks == 2

\* max_iterations: int = 3, the constructor's default.
DefaultMaxIterations == 3

\* Most calls of execute() a caller makes on one orchestrator.
MaxExecutes == 2

\* max_iterations = 10, the ceiling of the Coder's loop.
CoderMaxIterations == 10

\* max_iterations = 5, the ceiling of the Debugger's loop.
DebuggerMaxIterations == 5

\* Most tool calls one response of the model carries.
MaxToolCalls == 2

\* Largest max_retries retry_chat_completion is called with.
MaxRetries == 4

\* Most tool calls in a response whose calls are parsed.
MaxListedCalls == 3

\* Longest string of tool-call arguments.
MaxArgLen == 5

\* Most segments in a path handed to a filesystem tool.
MaxPathLen == 2

\* Most filesystem tools executed on one registry.
MaxOps == 2

\* Longest content written by create_file, in characters.
MaxContentLen == 1

\* Most pieces of text in the key of a JSON object of a response.
MaxKeyLen == 3

\* Most entries in the lists of RunState together.
MaxEntries == 3

\* Most list objects made by __init__ and reset().
MaxObjects == 6

\* Most evaluations accumulated when _should_iterate is called.
MaxEvaluations == 2

\* Most issues of one evaluation.
MaxIssues == 2

\* Most files handed to the Debugger.
MaxDebugFiles == 2

VARIABLES
    state,           \* self.state, the RunState dictionary
    max_iterations,  \* self.max_iterations
    pc,              \* where execute() stands
    idx,             \* position of the running for-loop (1-based)
    callback,        \* TRUE when execute() was given a callback
    result,          \* the dictionary execute() returned
    raised,          \* the exception execute() met (caught or propagated)
    clock,           \* what datetime.now() returns next
    calls,           \* history: the agent invocations of this run, in order
    events,          \* history: the progress events handed to the callback
    status_trace,    \* history: the values assigned to state["status"]
    previous,        \* what the caller kept of its first call of execute()
    executes,        \* the calls of execute() that have ended
    was_reset,       \* TRUE once the caller has called reset()
    stubs,           \* the deterministic stand-ins for agents and callback
    coder_pc,        \* where CodeGenerationAgent.execute stands
    iteration,       \* its local iteration
    created_files,   \* its local created_files
    coder_result,    \* the dictionary it returned
    gateway_calls,   \* history: its calls of retry_chat_completion
    last_turn,       \* history: what its latest iteration did
    created_log,     \* history: the paths its create_file calls created
    retry_pc,        \* where retry_chat_completion stands
    max_retries,     \* its argument max_retries
    retry_delay,     \* its argument retry_delay
    attempt,         \* its loop variable
    retry_local,     \* its local `result`
    retry_result,    \* the dictionary it returned
    attempt_log,     \* history: what each call of chat_completion returned
    sleeps,          \* history: the arguments of time.sleep
    chat_pc,         \* where chat_completion stands
    backend,         \* what the backend does with the request of this call
    chat_result,     \* the dictionary chat_completion returned
    chat_raised,     \* the exception that left chat_completion
    fs_dirs,         \* the directories of the file system
    fs_files,        \* the files of the file system
    tool_result,     \* what the latest filesystem tool returned
    tool_ops,        \* the filesystem tools executed so far
    touched,         \* history: the locations the tools read, listed or wrote
    fs_content,      \* the bytes of every file
    last_write,      \* what create_file wrote, while only reads have followed it
    extract_pc,      \* "idle", or the agent that has parsed a response
    extract_input,   \* the JSON text of the response and the fence around it
    extract_result,  \* what the agent made of the response
    heap,            \* the list objects of the orchestrator, by identity
    refs,            \* the lists self.state refers to
    snap,            \* the dict get_state() or execute() handed out last
    snap_pc,         \* where the run is, for the lists it appends to
    no_evaluation,   \* the --no-evaluation flag of the command line
    decision,        \* a call of _should_iterate: the state it found, its answer
    loop_agent,      \* the agent whose tool loop is followed call by call
    loop_pc,         \* where that loop stands
    loop_iteration,  \* its local iteration
    messages,        \* its local messages, the transcript
    tool_calls,      \* response["tool_calls"] of the turn in progress
    tool_index,      \* position of the for-loop over them (1-based)
    executions,      \* history: the ids handed to execute_tool, in order
    debug_pc,        \* where CodeDebuggerAgent.analyze_and_fix stands
    debug_input,     \* its argument files, and the file_contents it read
    debug_iteration, \* its local iteration
    debug_fixed,     \* its local fixed_files
    analysis_result, \* its local analysis_result
    debug_result,    \* the dictionary it returned
    debug_calls,     \* history: its calls of retry_chat_completion
    debug_turn       \* history: what its latest iteration did

\* the orchestrator and the run of execute() in progress
orchestrator_vars == <<state, max_iterations, pc, idx, callback, result, raised,
                       clock, calls, events, status_trace>>

\* the caller of execute() and reset()
reuse_vars == <<previous, executes, was_reset, stubs>>

\* one invocation of the Coder
coder_vars == <<coder_pc, iteration, created_files, coder_result, gateway_calls,
                last_turn, created_log>>

\* one call of retry_chat_completion
retry_vars == <<retry_pc, max_retries, retry_delay, attempt, retry_local,
                retry_result, attempt_log, sleeps>>

\* one call of chat_completion
chat_vars == <<chat_pc, backend, chat_result, chat_raised>>

\* the FilesystemTools and the file system under them
tools_vars ==
    <<fs_dirs, fs_files, tool_result, tool_ops, touched, fs_content, last_write>>

\* the parsing of a structured response by the Planner and the Evaluator
extract_vars == <<extract_pc, extract_input, extract_result>>

\* the lists of RunState as objects, and a dict handed out
snapshot_vars == <<heap, refs, snap, snap_pc>>

\* the command line
cli_vars == <<no_evaluation>>

\* a call of _should_iterate
decide_vars == <<decision>>

\* one tool loop, followed call by call
loop_vars == <<loop_agent, loop_pc, loop_iteration, messages, tool_calls, tool_index,
               executions>>

\* one invocation of the Debugger
debugger_vars == <<debug_pc, debug_input, debug_iteration, debug_fixed,
                   analysis_result, debug_result, debug_calls, debug_turn>>

\* what the steps of one component leave alone
outside_orchestrator == <<coder_vars, retry_vars, chat_vars, tools_vars, extract_vars, snapshot_vars, cli_vars, decide_vars, loop_vars, debugger_vars>>
outside_execute == <<reuse_vars, outside_orchestrator>>
outside_coder ==
    <<orchestrator_vars, reuse_vars, retry_vars, chat_vars, tools_vars, extract_vars, snapshot_vars, cli_vars, decide_vars, loop_vars, debugger_vars>>
outside_retry ==
    <<orchestrator_vars, reuse_vars, coder_vars, chat_vars, tools_vars, extract_vars, snapshot_vars, cli_vars, decide_vars, loop_vars, debugger_vars>>
outside_chat ==
    <<orchestrator_vars, reuse_vars, coder_vars, retry_vars, tools_vars, extract_vars, snapshot_vars, cli_vars, decide_vars, loop_vars, debugger_vars>>
outside_tools ==
    <<orchestrator_vars, reuse_vars, coder_vars, retry_vars, chat_vars, extract_vars, snapshot_vars, cli_vars, decide_vars, loop_vars, debugger_vars>>
outside_extract ==
    <<orchestrator_vars, reuse_vars, coder_vars, retry_vars, chat_vars, tools_vars,
      snapshot_vars, cli_vars, decide_vars, loop_vars, debugger_vars>>
outside_decide ==
    <<orchestrator_vars, reuse_vars, coder_vars, retry_vars, chat_vars, tools_vars,
      extract_vars, snapshot_vars, cli_vars, loop_vars, debugger_vars>>
outside_snapshot ==
    <<orchestrator_vars, reuse_vars, coder_vars, retry_vars, chat_vars, tools_vars,
      extract_vars, cli_vars, decide_vars, loop_vars, debugger_vars>>

outside_loop ==
    <<orchestrator_vars, reuse_vars, coder_vars, retry_vars, chat_vars, tools_vars,
      extract_vars, snapshot_vars, cli_vars, decide_vars, debugger_vars>>
outside_debugger ==
    <<orchestrator_vars, reuse_vars, coder_vars, retry_vars, chat_vars, tools_vars,
      extract_vars, snapshot_vars, cli_vars, decide_vars, loop_vars>>

vars == <<orchestrator_vars, outside_execute>>

----------------------------------------------------------------------------
(* Values *)

NoneStr == "<None>"      \* Python's None where a string is expected
NoId == "<missing>"      \* a task dictionary without a "task_id" key
NoTime == -1             \* None where a datetime is expected

\* Task dictionaries a plan may hold.  T1 lists T2, a later task, as a
\* dependency; one task declares no files; one carries no task_id.
TaskA == [task_id |-> "T1", files |-> <<"a.js">>, dependencies |-> <<"T2">>]
TaskB == [task_id |-> "T2", files |-> <<"b.js">>, dependencies |-> <<>>]
TaskNoFiles == [task_id |-> "T2", files |-> <<>>, dependencies |-> <<"T1">>]
TaskNoId == [task_id |-> NoId, files |-> <<"a.js">>, dependencies |-> <<>>]
NullTask == [task_id |-> NoneStr, files |-> <<>>, dependencies |-> <<>>]

TaskOrder == <<TaskA, TaskNoFiles, TaskB, TaskNoId>>
TaskPool == {TaskOrder[i] : i \in 1..Len(TaskOrder)}

\* The task lists of the model: up to MaxTasks of the task dictionaries, in
\* the order above.  Among them: T1 before the T2 it depends on, two tasks
\* under the one id T2, and a task without id whose default id T2 is the id
\* of another task of the list.
TaskLists == {SelectSeq(TaskOrder, LAMBDA t : t \in S) :
                S \in {X \in SUBSET TaskPool : Cardinality(X) <= MaxTasks}}

NonePlan == [none |-> TRUE, has_tasks |-> FALSE, tasks |-> <<>>]

\* The plans json.loads can hand back as a dict: with a "tasks" list, or
\* without the key.
Plans == {[none |-> FALSE, has_tasks |-> TRUE, tasks |-> ts] : ts \in TaskLists}
         \cup {[none |-> FALSE, has_tasks |-> FALSE, tasks |-> <<>>]}

\* Evaluation dictionaries: a good one, a poor one, and one of good quality
\* that lists a critical issue.
NoEvaluation == [overall_quality |-> "none", issues |-> <<>>]
EvGood == [overall_quality |-> "good", issues |-> <<>>]
EvPoor == [overall_quality |-> "poor", issues |-> <<>>]
EvCritical == [overall_quality |-> "good", issues |-> <<"minor", "critical">>]
Evaluations == {EvGood, EvPoor, EvCritical}

\* Exceptions: an Exception with a message, an Exception whose str() is
\* empty, and a BaseException that is no Exception (KeyboardInterrupt,
\* SystemExit).
NoExc == [kind |-> "none", msg |-> ""]
Exceptions == {[kind |-> "Exception", msg |-> "boom"],
               [kind |-> "Exception", msg |-> ""],
               [kind |-> "BaseException", msg |-> "interrupt"]}

\* What a call of an agent may raise: an error of the agent's own code
\* (.get on a JSON value that is no dict), or an interrupt while it waits
\* for the backend.
AttributeError == [kind |-> "Exception", msg |-> "no attribute 'get'"]
AgentExceptions == {AttributeError,
                    [kind |-> "BaseException", msg |-> "interrupt"]}

InitState == [status |-> "idle",
              current_task |-> NoneStr,
              plan |-> NonePlan,
              tasks_completed |-> <<>>,
              tasks_pending |-> <<>>,
              all_created_files |-> <<>>,
              evaluations |-> <<>>,
              iterations |-> 0,
              start_time |-> NoTime,
              end_time |-> NoTime]

\* What a caller holds of a finished call of execute(): how it ended, the
\* result and the exception, the callback it had passed, and the histories.
RunOf(p, st, cb, res, exc, cs, evs, trace) ==
    [pc |-> p, state |-> st, callback |-> cb, result |-> res, raised |-> exc,
     calls |-> cs, events |-> evs, status_trace |-> trace]

----------------------------------------------------------------------------
(* Helpers on Python values *)

\* x in list
InList(x, s) == \E i \in 1..Len(s) : s[i] = x

\* s is the beginning of t
IsPrefix(s, t) == Len(s) <= Len(t) /\ SubSeq(t, 1, Len(s)) = s

\* f"T{idx+1}" for the 0-based idx of enumerate(); i is 1-based here.
DefaultTaskId(i) == <<"T1", "T2", "T3", "T4", "T5">>[i]

\* task.get("task_id", f"T{idx+1}")
TaskIdOf(task, i) == IF task.task_id = NoId THEN DefaultTaskId(i) ELSE task.task_id

\* `if error:` -- None and the empty string are both falsy.
Truthy(error) == error # NoneStr /\ error # ""

\* _build_result
BuildResult(st, success, error) ==
    [success |-> success,
     status |-> st.status,
     plan |-> st.plan,
     tasks_completed |-> st.tasks_completed,
     files_created |-> st.all_created_files,
     total_files |-> Len(st.all_created_files),
     evaluations |-> st.evaluations,
     iterations |-> st.iterations,
     has_duration |-> (st.start_time # NoTime /\ st.end_time # NoTime),
     duration_seconds |-> IF st.start_time # NoTime /\ st.end_time # NoTime
                          THEN st.end_time - st.start_time ELSE 0,
     has_error |-> Truthy(error),
     error |-> IF Truthy(error) THEN error ELSE ""]

NoResult == BuildResult(InitState, FALSE, NoneStr)

\* The stubs of a run whose environment is free.
NoStubs == [callback |-> [supplied |-> FALSE, on |-> "never", exc |-> NoExc],
            planner |-> [outcome |-> "failure", plan |-> NonePlan, exc |-> NoExc],
            coder |-> "none", evaluator |-> "none", debugger |-> "none"]

\* No call of execute() was made before.
NoRun == RunOf("idle", InitState, FALSE, NoResult, NoExc, <<>>, <<>>, <<>>)

\* A decision that reads the overall quality only.
ShouldIterateQualityOnly(evaluations) ==
    \E k \in 1..Len(evaluations) : evaluations[k].overall_quality = "poor"

\* A decision that reads the first evaluation only.
ShouldIterateFirstOnly(evaluations) ==
    /\ evaluations # <<>>
    /\ \/ evaluations[1].overall_quality = "poor"
       \/ InList("critical", evaluations[1].issues)

\* _should_iterate, from the i-th evaluation on
RECURSIVE ShouldIterateFrom(_, _)
ShouldIterateFrom(evaluations, i) ==
    IF i > Len(evaluations) THEN FALSE
    ELSE IF evaluations[i].overall_quality = "poor" THEN TRUE
    ELSE IF \E k \in 1..Len(evaluations[i].issues) :
                evaluations[i].issues[k] = "critical" THEN TRUE
    ELSE ShouldIterateFrom(evaluations, i + 1)

\* _should_iterate
ShouldIterate(evaluations) == ShouldIterateFrom(evaluations, 1)

\* next((t for t in plan["tasks"] if t["task_id"] == task), None):
\* the first task whose id matches; t["task_id"] raises KeyError on a task
\* without the key, plan["tasks"] on a plan without it.
RECURSIVE FindTaskFrom(_, _, _)
FindTaskFrom(tasks, tid, i) ==
    IF i > Len(tasks) THEN [kind |-> "none", task |-> NullTask]
    ELSE IF tasks[i].task_id = NoId THEN [kind |-> "raise", task |-> NullTask]
    ELSE IF tasks[i].task_id = tid THEN [kind |-> "found", task |-> tasks[i]]
    ELSE FindTaskFrom(tasks, tid, i + 1)

FindTask(plan, tid) ==
    IF ~plan.has_tasks THEN [kind |-> "raise", task |-> NullTask]
    ELSE FindTaskFrom(plan.tasks, tid, 1)

KeyError == [kind |-> "Exception", msg |-> "'task_id'"]

----------------------------------------------------------------------------
(* What the agents return *)

\* One entry of the invocation history: the agent, the task and files it
\* was given, how the call ended ("success", "failure" or "raised") and the
\* files it reported (created_files, fixed_files).
AgentCall(agent, task, files, outcome, out) ==
    [agent |-> agent, task |-> task, files |-> files, outcome |-> outcome, out |-> out,
     evaluation |-> NoEvaluation]

\* An entry for a call of the Evaluator, with the evaluation it returned.
EvaluatorCall(task, files, outcome, evaluation) ==
    [AgentCall("Evaluator", task, files, outcome, <<>>) EXCEPT !.evaluation = evaluation]

Outcome(success) == IF success THEN "success" ELSE "failure"

\* The gateway's answer to a single-shot agent (Planner, Evaluator): a
\* failure, or a success whose content does not parse as JSON, parses to a
\* value that is no dict, or parses to the dict `value`.
Responses(values, none) ==
    {[success |-> FALSE, content |-> "none", value |-> none],
     [success |-> TRUE, content |-> "unparsable", value |-> none],
     [success |-> TRUE, content |-> "nondict", value |-> none]}
    \cup {[success |-> TRUE, content |-> "dict", value |-> v] : v \in values}

\* ProjectPlanningAgent.execute, given the gateway's response
PlanningAgentExecute(response) ==
    IF ~response.success
        THEN [exc |-> NoExc, success |-> FALSE, plan |-> NonePlan]
    ELSE IF response.content = "unparsable"     \* json.JSONDecodeError
        THEN [exc |-> NoExc, success |-> FALSE, plan |-> NonePlan]
    ELSE IF response.content = "nondict"        \* plan.get on a non-dict
        THEN [exc |-> AttributeError, success |-> FALSE, plan |-> NonePlan]
    ELSE [exc |-> NoExc, success |-> TRUE, plan |-> response.value]

\* CodeEvaluationAgent.execute, given the gateway's response
EvaluationAgentExecute(response) ==
    IF ~response.success
        THEN [exc |-> NoExc, success |-> FALSE, evaluation |-> EvGood]
    ELSE IF response.content = "unparsable"
        THEN [exc |-> NoExc, success |-> FALSE, evaluation |-> EvGood]
    ELSE IF response.content = "nondict"        \* evaluation.get on a non-dict
        THEN [exc |-> AttributeError, success |-> FALSE, evaluation |-> EvGood]
    ELSE [exc |-> NoExc, success |-> TRUE, evaluation |-> response.value]

\* What CodeGenerationAgent.execute returns for a task: success or failure,
\* with the files its create_file calls reported: none, the declared ones,
\* or another path.
CoderResults(task) ==
    {[success |-> s, created_files |-> f] :
        s \in BOOLEAN, f \in {<<>>, task.files, <<"b.js">>}}

\* What CodeDebuggerAgent.analyze_and_fix returns: a failure when no file
\* could be read, else success with the fixed files and the analysis
\* (a dict or None, or a JSON value that is no dict).
DebuggerResults(files) ==
    {[success |-> FALSE, fixed_files |-> <<>>, analysis |-> "none"]}
    \cup {[success |-> TRUE, fixed_files |-> f, analysis |-> "dict"] :
            f \in {<<>>, <<files[1]>>, <<"fix.js", "fix.js">>}}
    \cup {[success |-> TRUE, fixed_files |-> <<"fix.js">>, analysis |-> "nondict"]}

----------------------------------------------------------------------------
(* The run context and the steps of execute() on it *)

Cur == [state |-> state, calls |-> calls, events |-> events,
        status_trace |-> status_trace, clock |-> clock]

\* self.state["status"] = s
SetStatus(c, s) ==
    [c EXCEPT !.state.status = s, !.status_trace = Append(@, s)]

\* an agent is invoked; the history keeps the status it ran under
Invoke(c, call) ==
    [c EXCEPT !.calls = Append(@,
        [agent |-> call.agent, task |-> call.task, files |-> call.files,
         outcome |-> call.outcome, out |-> call.out, evaluation |-> call.evaluation,
         status |-> c.state.status])]

\* A progress event that leaves out the position in the task list.
UpdateProgressNoCount(c, cb, message, current, total) ==
    IF cb
    THEN [c EXCEPT !.events = Append(@,
            [message |-> message,
             status |-> c.state.status,
             current |-> 0,
             total |-> 0,
             files_created |-> Len(c.state.all_created_files)])]
    ELSE c

\* _update_progress up to the call of the callback
UpdateProgress(c, cb, message, current, total) ==
    IF cb
    THEN [c EXCEPT !.events = Append(@,
            [message |-> message,
             status |-> c.state.status,
             current |-> current,
             total |-> total,
             files_created |-> Len(c.state.all_created_files)])]
    ELSE c

\* The exceptions a call of the callback may raise: it is only called when
\* supplied.
CallbackRaises(cb) == IF cb THEN Exceptions ELSE {}

\* The step leaves execute() running at position p, loop index i.
Continue(c, p, i) ==
    /\ state' = c.state
    /\ calls' = c.calls
    /\ events' = c.events
    /\ status_trace' = c.status_trace
    /\ clock' = c.clock
    /\ pc' = p
    /\ idx' = i
    /\ UNCHANGED <<result, raised>>
    /\ UNCHANGED outside_execute

\* return self._build_result(success, error)
Return(c, success, error) ==
    /\ state' = c.state
    /\ calls' = c.calls
    /\ events' = c.events
    /\ status_trace' = c.status_trace
    /\ clock' = c.clock
    /\ pc' = "returned"
    /\ result' = BuildResult(c.state, success, error)
    /\ UNCHANGED <<idx, raised>>
    /\ UNCHANGED outside_execute

\* Exception e is raised inside the try block: `except Exception` catches
\* it unless it is a BaseException only, which leaves execute().
Raise(c, e) ==
    /\ raised' = e
    /\ calls' = c.calls
    /\ events' = c.events
    /\ clock' = c.clock
    /\ UNCHANGED idx
    /\ UNCHANGED outside_execute
    /\ IF e.kind = "Exception"
       THEN /\ state' = SetStatus(c, "failed").state
            /\ status_trace' = SetStatus(c, "failed").status_trace
            /\ pc' = "returned"
            /\ result' = BuildResult(SetStatus(c, "failed").state, FALSE, e.msg)
       ELSE /\ state' = c.state
            /\ status_trace' = c.status_trace
            /\ pc' = "raised"
            /\ result' = result

----------------------------------------------------------------------------
(* The pieces of the phase methods that change RunState *)

\* A coding loop that records the task and forgets its files.
ApplyCodingResultNoFiles(c, task_id, r) ==
    IF r.success
    THEN [c EXCEPT !.state.tasks_completed = Append(@, task_id)]
    ELSE c

\* A coding loop that records every task, failed or not.
ApplyCodingResultAlways(c, task_id, r) ==
    [c EXCEPT !.state.tasks_completed = Append(@, task_id),
              !.state.all_created_files = @ \o r.created_files]

\* _execute_coding, lines 176-181: a successful task is recorded with the
\* files it created; a failed one leaves RunState alone.
ApplyCodingResult(c, task_id, r) ==
    IF r.success
    THEN [c EXCEPT !.state.tasks_completed = Append(@, task_id),
                   !.state.all_created_files = @ \o r.created_files]
    ELSE c

\* A planning failure that is not noticed.
PlanningFailedIgnored(r) == FALSE

\* execute, line 100: `if not planning_result["success"]`
PlanningFailed(r) == ~r.success

\* A coding loop that walks the task list from its end.
PendingTaskReversed(st, i) == st.tasks_pending[Len(st.tasks_pending) - i + 1]

\* _execute_coding, line 163: enumerate() hands out the tasks in list order
PendingTask(st, i) == st.tasks_pending[i]

\* An evaluation of the files the coding phase created.
EvaluationFilesCreated(task_obj, st) == st.all_created_files

\* _execute_evaluation, line 211: the files the Evaluator is given
EvaluationFiles(task_obj, st) == task_obj.files

\* An evaluation phase that keeps what a failed Evaluator call carried.
ApplyEvaluationResultAlways(c, r) ==
    [c EXCEPT !.state.evaluations = Append(@, r.evaluation)]

\* _execute_evaluation, lines 223-228
ApplyEvaluationResult(c, r) ==
    IF r.success
    THEN [c EXCEPT !.state.evaluations = Append(@, r.evaluation)]
    ELSE c

\* A debug phase that looks at the first created file only.
DebuggingFilesFirst(st) == SubSeq(st.all_created_files, 1, 1)

\* _execute_debugging, line 247: the files the Debugger is given
DebuggingFiles(st) == st.all_created_files

\* A merge that appends every fixed path, present or not.
MergeFixedAppendAll(files, fixed_files) == files \o fixed_files

\* _execute_debugging, lines 258-260
RECURSIVE MergeFixed(_, _)
MergeFixed(files, fixed_files) ==
    IF fixed_files = <<>> THEN files
    ELSE MergeFixed(IF InList(Head(fixed_files), files) THEN files
                    ELSE Append(files, Head(fixed_files)),
                    Tail(fixed_files))

\* A decision that counts without looking at the ceiling.
ApplyIterateDecisionNoCeiling(st, ceiling) ==
    IF ShouldIterate(st.evaluations)
    THEN [st EXCEPT !.iterations = @ + 1]
    ELSE st

\* execute, lines 122-126
ApplyIterateDecision(st, ceiling) ==
    IF ShouldIterate(st.evaluations) /\ st.iterations < ceiling
    THEN [st EXCEPT !.iterations = @ + 1]
    ELSE st

\* A run that debugs right after coding and never evaluates.
AfterCodingDebug == "debugging"

\* Where execute() goes once the coding loop has run through.
AfterCoding == "evaluation"
\* Where execute() goes once the evaluation phase has returned.
AfterEvaluation == "debugging"
\* Where execute() goes once the debug phase has returned.
AfterDebugging == "decide"

----------------------------------------------------------------------------
(* The steps of execute() *)

\* What CodeGenerationAgent.execute has returned when it has not returned.
NoCoderResult == [success |-> FALSE, has_error |-> FALSE, error |-> NoneStr,
                  created_files |-> <<>>, iterations |-> 0]

NoTurn == [iteration |-> 0, gateway |-> "none", requested |-> 0, executed |-> 0]

\* The Coder before it is invoked.
CoderAtRest ==
    /\ coder_pc = "idle"
    /\ iteration = 0
    /\ created_files = <<>>
    /\ coder_result = NoCoderResult
    /\ gateway_calls = 0
    /\ last_turn = NoTurn
    /\ created_log = <<>>

\* No response: the local `result` before its first assignment.
NoResponse == [success |-> FALSE, content |-> "unbound"]

\* retry_chat_completion before it is called.
RetryAtRest ==
    /\ retry_pc = "idle"
    /\ max_retries = 0
    /\ retry_delay = 0
    /\ attempt = 0
    /\ retry_local = NoResponse
    /\ retry_result = NoResponse
    /\ attempt_log = <<>>
    /\ sleeps = <<>>

\* What chat_completion has returned when it has not returned.
NoChatResult == [success |-> FALSE, error |-> NoneStr, content |-> NoneStr,
                 tool_calls |-> <<>>]

\* A backend that answers with a text and no tool call.
PlainBackend == [raises |-> NoExc, choices |-> TRUE, tool_calls |-> <<>>]

\* chat_completion before it is called.
ChatAtRest ==
    /\ chat_pc = "idle"
    /\ backend = PlainBackend
    /\ chat_result = NoChatResult
    /\ chat_raised = NoExc

\* ToolKit.__init__: base_dir "./output", as a location from the root, the
\* working directory being /work.
Base == <<"work", "output">>

NoPath == [absolute |-> FALSE, segs |-> <<"none">>]

NoWrite == [path |-> NoPath, content |-> <<>>]

\* The result of a tool, with the path it was called with.
ToolResult(tool, path, success, files, content) ==
    [tool |-> tool, path |-> path, success |-> success, files |-> files,
     content |-> content]

NoToolResult == ToolResult("none", NoPath, FALSE, {}, <<>>)

\* ToolKit.__init__, line 19: the base directory exists; a file f lies
\* beside it in the working directory.
ToolsAtRest ==
    /\ fs_dirs = {<<>>, <<"work">>, Base}
    /\ fs_files = {<<"work", "f">>}
    /\ tool_result = NoToolResult
    /\ tool_ops = 0
    /\ touched = {}
    /\ fs_content = [location \in {<<"work", "f">>} |-> <<"61">>]
    /\ last_write = NoWrite

NoInput == [key |-> <<>>, value |-> <<>>, spaced |-> FALSE, fence |-> "none"]

NoParse == [outcome |-> "none"]

\* no response has been parsed
ExtractAtRest ==
    /\ extract_pc = "idle"
    /\ extract_input = NoInput
    /\ extract_result = NoParse

ListFields == {"tasks_completed", "all_created_files", "evaluations"}

NoSnapshot ==
    [kind |-> "none", refs |-> [f \in ListFields |-> 0],
     seen |-> [f \in ListFields |-> <<>>]]

\* __init__, lines 64-75: three new empty lists
SnapshotAtRest ==
    /\ heap = <<<<>>, <<>>, <<>>>>
    /\ refs = [tasks_completed |-> 1, all_created_files |-> 2, evaluations |-> 3]
    /\ snap = NoSnapshot
    /\ snap_pc = "idle"

\* __init__: the orchestrator as constructed, no call made yet
ConstructedWith(ceiling) ==
    /\ state = InitState
    /\ max_iterations = ceiling
    /\ pc = "idle"
    /\ idx = 1
    /\ callback = FALSE
    /\ result = NoResult
    /\ raised = NoExc
    /\ clock = 0
    /\ calls = <<>>
    /\ events = <<>>
    /\ status_trace = <<>>
    /\ previous = NoRun
    /\ executes = 0
    /\ was_reset = FALSE

\* the orchestrator as constructed, with the default ceiling or with none
Constructed == \E ceiling \in {0, DefaultMaxIterations} : ConstructedWith(ceiling)

\* main() has not been given the flag
CliAtRest == no_evaluation = FALSE

NoDecision == [pc |-> "idle", value |-> FALSE, entry |-> InitState]

\* _should_iterate has not been called
DecideAtRest == decision = NoDecision

\* no tool loop is followed
LoopAtRest ==
    /\ loop_agent = "none"
    /\ loop_pc = "idle"
    /\ loop_iteration = 0
    /\ messages = <<>>
    /\ tool_calls = <<>>
    /\ tool_index = 1
    /\ executions = <<>>

NoDebugInput == [files |-> <<>>, file_contents |-> {}]

\* What analyze_and_fix has returned when it has not returned.
NoDebugResult == [success |-> FALSE, has_error |-> FALSE, fixed_files |-> <<>>,
                  analysis |-> "none", iterations |-> 0]

\* The Debugger before it is invoked.
DebuggerAtRest ==
    /\ debug_pc = "idle"
    /\ debug_input = NoDebugInput
    /\ debug_iteration = 0
    /\ debug_fixed = <<>>
    /\ analysis_result = "none"
    /\ debug_result = NoDebugResult
    /\ debug_calls = 0
    /\ debug_turn = NoTurn

\* An orchestrator that is constructed and not called.
OrchestratorAtRest ==
    /\ Constructed
    /\ max_iterations = DefaultMaxIterations
    /\ stubs = NoStubs

Init ==
    /\ Constructed
    /\ stubs = NoStubs
    /\ CoderAtRest
    /\ RetryAtRest
    /\ ChatAtRest
    /\ ToolsAtRest
    /\ ExtractAtRest
    /\ SnapshotAtRest
    /\ CliAtRest
    /\ DecideAtRest
    /\ LoopAtRest
    /\ DebuggerAtRest

\* execute, lines 88-97: the run starts and the first progress event goes out.
Execute ==
    /\ pc = "idle"
    /\ UNCHANGED max_iterations
    /\ \E cb \in BOOLEAN :
        /\ callback' = cb
        /\ LET c1 == [Cur EXCEPT !.state.start_time = clock, !.clock = clock + 1]
               c2 == UpdateProgress(SetStatus(c1, "planning"), cb, "planning", 0, 0)
           IN \/ \E e \in CallbackRaises(cb) : Raise(c2, e)
              \/ Continue(c2, "planning", 1)

\* execute, lines 98-110, with _execute_planning
Planning ==
    /\ pc = "planning"
    /\ UNCHANGED <<max_iterations, callback>>
    /\ LET called(o) == Invoke(Cur, AgentCall("Planner", NullTask, <<>>, o, <<>>))
       IN \/ \E e \in AgentExceptions : Raise(called("raised"), e)
          \/ \E response \in Responses(Plans, NonePlan) :
                LET r == PlanningAgentExecute(response)
                    c1 == called(Outcome(r.success))
                IN IF r.exc # NoExc THEN Raise(called("raised"), r.exc)
                   ELSE IF PlanningFailed(r)
                   THEN Return(SetStatus(c1, "failed"), FALSE, "Planning failed")
                   ELSE Continue(
                          SetStatus([c1 EXCEPT !.state.plan = r.plan,
                                               !.state.tasks_pending = r.plan.tasks],
                                    "coding"),
                          IF r.plan.tasks = <<>> THEN AfterCoding ELSE "coding", 1)

\* _execute_coding, lines 163-183: one pass of the loop over tasks_pending
CodingTask ==
    /\ pc = "coding"
    /\ idx <= Len(state.tasks_pending)
    /\ UNCHANGED <<max_iterations, callback>>
    /\ LET task == PendingTask(state, idx)
           task_id == TaskIdOf(task, idx)
           c1 == UpdateProgress(Cur, callback, "coding", idx, Len(state.tasks_pending))
           c2 == [c1 EXCEPT !.state.current_task = task_id]
           called(o, out) == Invoke(c2, AgentCall("Coder", task, <<>>, o, out))
       IN \/ \E e \in CallbackRaises(callback) : Raise(c1, e)
          \/ \E e \in AgentExceptions : Raise(called("raised", <<>>), e)
          \/ \E r \in CoderResults(task) :
                Continue(ApplyCodingResult(called(Outcome(r.success), r.created_files),
                                           task_id, r),
                         IF idx = Len(state.tasks_pending) THEN AfterCoding ELSE "coding",
                         idx + 1)

\* execute, line 114, and _execute_evaluation, lines 193-200: the phase
\* returns at once when no file was created.
StartEvaluation ==
    /\ pc = "evaluation"
    /\ UNCHANGED <<max_iterations, callback>>
    /\ LET c1 == SetStatus(Cur, "evaluating")
           c2 == UpdateProgress(c1, callback, "evaluating", 0, 0)
       IN IF state.all_created_files = <<>>
          THEN Continue(c1, AfterEvaluation, 1)
          ELSE \/ \E e \in CallbackRaises(callback) : Raise(c2, e)
               \/ Continue(c2,
                           IF state.tasks_completed = <<>> THEN AfterEvaluation
                           ELSE "evaluating",
                           1)

\* _execute_evaluation, lines 203-228: one pass of the loop over
\* tasks_completed
EvaluateTask ==
    /\ pc = "evaluating"
    /\ idx <= Len(state.tasks_completed)
    /\ UNCHANGED <<max_iterations, callback>>
    /\ LET task == state.tasks_completed[idx]
           found == FindTask(state.plan, task)
           task_files == EvaluationFiles(found.task, state)
           next == IF idx = Len(state.tasks_completed) THEN AfterEvaluation
                   ELSE "evaluating"
           called(o) == Invoke(Cur, EvaluatorCall(found.task, task_files, o, NoEvaluation))
           answered(r) == Invoke(Cur, EvaluatorCall(found.task, task_files,
                                                    Outcome(r.success),
                                                    IF r.success THEN r.evaluation
                                                    ELSE NoEvaluation))
       IN IF found.kind = "raise" THEN Raise(Cur, KeyError)
          ELSE IF found.kind = "none" \/ task_files = <<>>
          THEN Continue(Cur, next, idx + 1)
          ELSE \/ \E e \in AgentExceptions : Raise(called("raised"), e)
               \/ \E response \in Responses(Evaluations, EvGood) :
                     LET r == EvaluationAgentExecute(response)
                     IN IF r.exc # NoExc THEN Raise(called("raised"), r.exc)
                        ELSE Continue(ApplyEvaluationResult(answered(r), r),
                                      next, idx + 1)

\* execute, lines 118-119, and _execute_debugging
Debugging ==
    /\ pc = "debugging"
    /\ UNCHANGED <<max_iterations, callback>>
    /\ LET c1 == SetStatus(Cur, "debugging")
           c2 == UpdateProgress(c1, callback, "debugging", 0, 0)
           called(o, out) == Invoke(c2, AgentCall("Debugger", NullTask,
                                                  DebuggingFiles(c2.state), o, out))
       IN IF state.all_created_files = <<>>
          THEN Continue(c1, AfterDebugging, 1)
          ELSE \/ \E e \in CallbackRaises(callback) : Raise(c2, e)
               \/ \E e \in AgentExceptions : Raise(called("raised", <<>>), e)
               \/ \E r \in DebuggerResults(state.all_created_files) :
                     IF ~r.success
                     THEN Continue(called("failure", r.fixed_files), AfterDebugging, 1)
                     ELSE LET c3 == called("success", r.fixed_files)
                              c4 == UpdateProgress(c3, callback,
                                       IF r.fixed_files # <<>> THEN "fixed"
                                       ELSE "no_issues", 0, 0)
                              c5 == [c4 EXCEPT !.state.all_created_files =
                                                  MergeFixed(@, r.fixed_files)]
                          IN \/ \E e \in CallbackRaises(callback) : Raise(c4, e)
                             \/ IF r.analysis = "nondict"
                                THEN Raise(c5, AttributeError)
                                ELSE Continue(c5, AfterDebugging, 1)

\* A completion that runs the coding phase again when the decision says so.
CompleteIterating ==
    /\ pc = "decide"
    /\ UNCHANGED <<max_iterations, callback>>
    /\ LET c1 == [Cur EXCEPT !.state = ApplyIterateDecision(@, max_iterations)]
           c2 == SetStatus(c1, "completed")
           c3 == [c2 EXCEPT !.state.end_time = clock, !.clock = clock + 1]
           c4 == UpdateProgress(c3, callback, "completed", 0, 0)
       IN IF c1.state.iterations > state.iterations /\ state.tasks_pending # <<>>
          THEN Continue(SetStatus(c1, "coding"), "coding", 1)
          ELSE \/ \E e \in CallbackRaises(callback) : Raise(c4, e)
               \/ Return(c4, TRUE, NoneStr)

\* execute, lines 121-136: the iterate decision and the completion
Complete ==
    /\ pc = "decide"
    /\ UNCHANGED <<max_iterations, callback>>
    /\ LET c1 == [Cur EXCEPT !.state = ApplyIterateDecision(@, max_iterations)]
           c2 == SetStatus(c1, "completed")
           c3 == [c2 EXCEPT !.state.end_time = clock, !.clock = clock + 1]
           c4 == UpdateProgress(c3, callback, "completed", 0, 0)
       IN \/ \E e \in CallbackRaises(callback) : Raise(c4, e)
          \/ Return(c4, TRUE, NoneStr)

Next ==
    \/ Execute
    \/ Planning
    \/ CodingTask
    \/ StartEvaluation
    \/ EvaluateTask
    \/ Debugging
    \/ Complete

Spec == Init /\ [][Next]_vars

----------------------------------------------------------------------------
(* main() (src/main.py): the run started from the command line *)

\* line 444: max_iterations=3 if not args.no_evaluation else 1
MainMaxIterations(flag) == IF ~flag THEN 3 ELSE 1

\* lines 192-196 and 440-445: the flag is parsed and the orchestrator is
\* constructed
CliInit ==
    /\ no_evaluation \in BOOLEAN
    /\ ConstructedWith(MainMaxIterations(no_evaluation))
    /\ stubs = NoStubs
    /\ CoderAtRest
    /\ RetryAtRest
    /\ ChatAtRest
    /\ ToolsAtRest
    /\ ExtractAtRest
    /\ SnapshotAtRest
    /\ DecideAtRest
    /\ LoopAtRest
    /\ DebuggerAtRest

\* lines 459-462: main() calls execute() with the update of its progress
\* tracker as callback
CliNext == Next /\ (pc = "idle" => callback')

CliSpec == CliInit /\ [][CliNext]_vars

----------------------------------------------------------------------------
(* _should_iterate (src/orchestrator.py), called on accumulated evaluations *)

Severities == {"minor", "critical"}

IssueLists == UNION {[1..n -> Severities] : n \in 0..MaxIssues}

\* The evaluations an Evaluator may have returned: an overall quality and
\* the severities of its issues.
EvaluationValues ==
    [overall_quality : {"good", "poor", "unknown"}, issues : IssueLists]

EvaluationLists == UNION {[1..n -> EvaluationValues] : n \in 0..MaxEvaluations}

\* execute() has reached line 122 with some evaluations accumulated
DecideInit ==
    /\ \E evaluations \in EvaluationLists :
          state = [InitState EXCEPT !.status = "debugging",
                                    !.evaluations = evaluations]
    /\ max_iterations = DefaultMaxIterations
    /\ pc = "decide"
    /\ idx = 1
    /\ callback = FALSE
    /\ result = NoResult
    /\ raised = NoExc
    /\ clock = 0
    /\ calls = <<>>
    /\ events = <<>>
    /\ status_trace = <<>>
    /\ previous = NoRun
    /\ executes = 0
    /\ was_reset = FALSE
    /\ stubs = NoStubs
    /\ CoderAtRest
    /\ RetryAtRest
    /\ ChatAtRest
    /\ ToolsAtRest
    /\ ExtractAtRest
    /\ SnapshotAtRest
    /\ CliAtRest
    /\ DecideAtRest
    /\ LoopAtRest
    /\ DebuggerAtRest

\* lines 281-295: the method reads self.state["evaluations"] and assigns
\* nothing
ShouldIterateCall ==
    /\ decision.pc = "idle"
    /\ decision' = [pc |-> "returned", value |-> ShouldIterate(state.evaluations),
                    entry |-> state]
    /\ UNCHANGED outside_decide

DecideNext == ShouldIterateCall

DecideSpec == DecideInit /\ [][DecideNext]_vars

----------------------------------------------------------------------------
(* Deterministic stubs, reset(), and calling execute() again *)

Last(s) == s[Len(s)]

\* A stub of the Coder answers as a function of the task it is given.
CoderStub(policy, task) ==
    CASE policy = "declared" ->
            [outcome |-> "success", out |-> task.files, exc |-> NoExc]
      [] policy = "first_only" ->
            IF task.task_id = "T1"
            THEN [outcome |-> "success", out |-> task.files, exc |-> NoExc]
            ELSE [outcome |-> "failure", out |-> <<"b.js">>, exc |-> NoExc]
      [] policy = "raises" ->
            [outcome |-> "raised", out |-> <<>>, exc |-> AttributeError]

\* A stub of the Evaluator answers as a function of the task.
EvaluatorStub(policy, task) ==
    CASE policy = "poor_T2" ->
            [outcome |-> "success",
             evaluation |-> IF task.task_id = "T2" THEN EvPoor ELSE EvCritical,
             exc |-> NoExc]
      [] policy = "fails" ->
            [outcome |-> "failure", evaluation |-> EvGood, exc |-> NoExc]
      [] policy = "raises" ->
            [outcome |-> "raised", evaluation |-> EvGood,
             exc |-> [kind |-> "BaseException", msg |-> "interrupt"]]

\* A stub of the Debugger answers as a function of the files.
DebuggerStub(policy, files) ==
    CASE policy = "fails" -> [outcome |-> "failure", out |-> <<>>, exc |-> NoExc]
      [] policy = "fixes" ->
            [outcome |-> "success", out |-> <<"fix.js", "fix.js">>, exc |-> NoExc]
      [] policy = "nondict" ->
            [outcome |-> "success", out |-> <<"fix.js">>, exc |-> NoExc]

\* The callbacks: none, and ones that raise on every event of one kind.
CallbackStubs ==
    {[supplied |-> FALSE, on |-> "never", exc |-> NoExc],
     [supplied |-> TRUE, on |-> "completed", exc |-> [kind |-> "Exception", msg |-> "boom"]],
     [supplied |-> TRUE, on |-> "evaluating",
      exc |-> [kind |-> "BaseException", msg |-> "interrupt"]]}

\* The Planner's answers: it raises, it fails, or it returns a plan of
\* MaxTasks tasks that begins with T1.
PlannerStubs ==
    {[outcome |-> "raised", plan |-> NonePlan, exc |-> AttributeError],
     [outcome |-> "failure", plan |-> NonePlan, exc |-> NoExc]}
    \cup {[outcome |-> "success", plan |-> p, exc |-> NoExc] :
            p \in {q \in Plans : Len(q.tasks) = MaxTasks /\ q.tasks[1] = TaskA}}

Stubs ==
    [callback : CallbackStubs,
     planner : PlannerStubs,
     coder : {"declared", "first_only", "raises"},
     evaluator : {"poor_T2", "fails", "raises"},
     debugger : {"fails", "fixes", "nondict"}]

\* the run ended in an exception of an agent
AgentRaised(run) == run.calls # <<>> /\ Last(run.calls).outcome = "raised"

\* the run ended in an exception of the callback, raised on its last event
CallbackRaised(run) == run.raised \in Exceptions /\ ~AgentRaised(run)

\* the evaluations the Evaluator handed back in a run: the last entries of
\* state["evaluations"], one for each call of it that succeeded
EvaluationsOf(st, cs) ==
    LET n == Len(SelectSeq(cs, LAMBDA c : c.agent = "Evaluator" /\ c.outcome = "success"))
        m == Len(st.evaluations)
    IN IF n <= m THEN SubSeq(st.evaluations, m - n + 1, m) ELSE st.evaluations

\* The run so far is one the stubs s produce: every agent call was answered
\* as its stub answers that input, and the callback raised where its stub
\* raises.
FollowsStubs(run, s) ==
    /\ run.pc # "idle" => run.callback = s.callback.supplied
    /\ \A i \in 1..Len(run.calls) :
          LET c == run.calls[i]
              a == CASE c.agent = "Planner" ->
                          [outcome |-> s.planner.outcome, out |-> <<>>,
                           exc |-> s.planner.exc]
                     [] c.agent = "Coder" -> CoderStub(s.coder, c.task)
                     [] c.agent = "Evaluator" ->
                          [outcome |-> EvaluatorStub(s.evaluator, c.task).outcome,
                           out |-> <<>>,
                           exc |-> EvaluatorStub(s.evaluator, c.task).exc]
                     [] c.agent = "Debugger" -> DebuggerStub(s.debugger, c.files)
          IN /\ c.outcome = a.outcome
             /\ c.out = a.out
             /\ c.outcome = "raised" => run.raised = a.exc
    /\ (run.calls # <<>> /\ run.calls[1].outcome = "success")
          => run.state.plan = s.planner.plan
    /\ LET answered == SelectSeq(run.calls,
                          LAMBDA c : c.agent = "Evaluator" /\ c.outcome = "success")
           evs == EvaluationsOf(run.state, run.calls)
       IN \A j \in 1..Len(evs) :
             evs[j] = EvaluatorStub(s.evaluator, answered[j].task).evaluation
    /\ \A n \in 1..Len(run.events) :
          run.events[n].message = s.callback.on
            => n = Len(run.events) /\ CallbackRaised(run) /\ run.raised = s.callback.exc
    /\ CallbackRaised(run)
          => run.events # <<>> /\ Last(run.events).message = s.callback.on

Current == RunOf(pc, state, callback, result, raised, calls, events, status_trace)

\* execute() runs against the stubs
ExecuteStep == Next /\ FollowsStubs(Current, stubs)'

\* The caller, holding what execute() returned, is about to call it again.
HandBack ==
    /\ previous' = IF executes = 0 THEN Current ELSE previous
    /\ executes' = executes + 1
    /\ pc' = "idle"
    /\ idx' = 1
    /\ callback' = FALSE
    /\ result' = NoResult
    /\ raised' = NoExc
    /\ calls' = <<>>
    /\ events' = <<>>
    /\ status_trace' = <<>>
    /\ UNCHANGED <<max_iterations, clock, stubs>>
    /\ UNCHANGED outside_orchestrator

\* execute() is called again on the orchestrator as the last call left it.
Again ==
    /\ pc \in {"returned", "raised"}
    /\ ~was_reset
    /\ executes + 1 < MaxExecutes
    /\ HandBack
    /\ UNCHANGED <<state, was_reset>>

\* A reset that keeps the list of created files.
ResetStateKeepsFiles(st) == [InitState EXCEPT !.all_created_files = st.all_created_files]

\* reset, lines 339-350: self.state is replaced by a new dictionary
ResetState(st) == InitState

\* reset() is called after execute() has ended, and execute() is to be
\* called once more.
Reset ==
    /\ pc \in {"returned", "raised"}
    /\ ~was_reset
    /\ HandBack
    /\ state' = ResetState(state)
    /\ was_reset' = TRUE

\* The ceilings an orchestrator is constructed with: none, one iteration,
\* the default.
Ceilings == {0, 1, DefaultMaxIterations}

ReuseInit ==
    /\ \E ceiling \in Ceilings : ConstructedWith(ceiling)
    /\ stubs \in Stubs
    /\ CoderAtRest
    /\ RetryAtRest
    /\ ChatAtRest
    /\ ToolsAtRest
    /\ ExtractAtRest
    /\ SnapshotAtRest
    /\ CliAtRest
    /\ DecideAtRest
    /\ LoopAtRest
    /\ DebuggerAtRest

ReuseNext ==
    \/ ExecuteStep
    \/ Again
    \/ Reset

ReuseSpec == ReuseInit /\ [][ReuseNext]_vars

----------------------------------------------------------------------------
(* CodeGenerationAgent.execute (src/agents.py): the tool loop of the Coder *)

\* What one tool call of a response leads to: create_file that succeeds,
\* create_file that reports a failure, another tool, a call whose
\* arguments make execute_tool raise (create_file(**arguments) on a wrong
\* key), and a tool the registry does not know.
ToolCallKinds == {"create_ok", "create_fail", "other", "bad_args", "unknown"}

\* ToolManager.tool_map (src/tools.py, lines 384-391)
ToolMap ==
    {"create_file", "read_file", "list_files", "create_directory", "web_search",
     "execute_command"}

\* the parameters a handler cannot be called without
Required(name) ==
    CASE name = "create_file" -> {"file_path", "content"}
      [] name = "read_file" -> {"file_path"}
      [] name = "list_files" -> {}
      [] name = "create_directory" -> {"dir_path"}
      [] name = "web_search" -> {"query"}
      [] name = "execute_command" -> {"command"}
      [] OTHER -> {}

\* the parameters a handler has
Allowed(name) ==
    CASE name = "list_files" -> {"directory"}
      [] name = "execute_command" -> {"command", "timeout"}
      [] OTHER -> Required(name)

\* ToolManager.execute_tool and the execute_tool it hands over to: an
\* unknown name is answered with a failure; a known handler is called as
\* handler(**arguments), which raises TypeError when a parameter is
\* missing or a key is no parameter.
ExecuteToolRaises(name, keys) ==
    /\ name \in ToolMap
    /\ ~(Required(name) \subseteq keys /\ keys \subseteq Allowed(name))

\* The name and the argument keys of a tool call of each kind.
CallOf(kind) ==
    CASE kind = "bad_args" -> [name |-> "create_file", keys |-> {"path", "content"}]
      [] kind = "other" -> [name |-> "read_file", keys |-> {"file_path"}]
      [] kind = "unknown" -> [name |-> "delete_file", keys |-> {"file_path"}]
      [] OTHER -> [name |-> "create_file", keys |-> {"file_path", "content"}]

\* The non-empty tool_calls lists of a response.
ToolBatches == UNION {[1..n -> ToolCallKinds] : n \in 1..MaxToolCalls}

\* The errors a failed gateway call carries.
GatewayErrors == {"timeout", ""}

\* The file_path the model asks for in iteration k.
PathOf(k) == IF k = 1 THEN "a.js" ELSE "b.js"

\* lines 433-451: the tool calls of a response are executed in order, from
\* the j-th on; a successful create_file adds its path.
RECURSIVE RunTools(_, _, _)
RunTools(batch, k, j) ==
    IF j > Len(batch) THEN [created |-> <<>>, executed |-> 0, raised |-> FALSE]
    ELSE IF ExecuteToolRaises(CallOf(batch[j]).name, CallOf(batch[j]).keys)
    THEN [created |-> <<>>, executed |-> 0, raised |-> TRUE]
    ELSE LET rest == RunTools(batch, k, j + 1)
         IN [created |-> (IF batch[j] = "create_ok" THEN <<PathOf(k)>> ELSE <<>>)
                         \o rest.created,
             executed |-> 1 + rest.executed,
             raised |-> rest.raised]

\* A loop that allows one iteration more.
LoopGoesOnOnceMore(i) == i <= CoderMaxIterations

\* line 374: while iteration < max_iterations
LoopGoesOn(i) == i < CoderMaxIterations

\* A Coder that reports a failure when the loop ran into its ceiling.
ReturnSuccessUnlessCeiling(ceiling) == ~ceiling

\* line 454: "success": True, however the loop ended
ReturnSuccess(ceiling) == TRUE

\* A failure that forgets the files created before it.
FailureFilesNone(files) == <<>>

\* line 394: "created_files": created_files
FailureFiles(files) == files

\* lines 338-372: execute() is entered
CoderExecute ==
    /\ coder_pc = "idle"
    /\ coder_pc' = "loop"
    /\ iteration' = 0
    /\ created_files' = <<>>
    /\ UNCHANGED <<coder_result, gateway_calls, last_turn, created_log>>
    /\ UNCHANGED outside_coder

\* lines 374-451: one iteration of the loop
CoderIteration ==
    /\ coder_pc = "loop"
    /\ LoopGoesOn(iteration)
    /\ iteration' = iteration + 1
    /\ gateway_calls' = gateway_calls + 1
    /\ UNCHANGED outside_coder
    /\ \/ \E error \in GatewayErrors :           \* lines 389-395
            /\ coder_result' = [success |-> FALSE, has_error |-> TRUE, error |-> error,
                                created_files |-> FailureFiles(created_files),
                                iterations |-> 0]
            /\ coder_pc' = "returned"
            /\ last_turn' = [iteration |-> iteration + 1, gateway |-> "failure",
                             requested |-> 0, executed |-> 0]
            /\ UNCHANGED <<created_files, created_log>>
       \/ /\ coder_pc' = "done"                  \* lines 428-430
          /\ last_turn' = [iteration |-> iteration + 1, gateway |-> "success",
                           requested |-> 0, executed |-> 0]
          /\ UNCHANGED <<created_files, created_log, coder_result>>
       \/ \E batch \in ToolBatches :             \* lines 433-451
            LET r == RunTools(batch, iteration + 1, 1)
            IN /\ created_files' = created_files \o r.created
               /\ created_log' = created_log \o r.created
               /\ last_turn' = [iteration |-> iteration + 1, gateway |-> "success",
                                requested |-> Len(batch), executed |-> r.executed]
               /\ coder_pc' = IF r.raised THEN "raised" ELSE "loop"
               /\ UNCHANGED coder_result

\* lines 453-458: the loop has ended, by break or at its ceiling
CoderReturn ==
    /\ \/ coder_pc = "done"
       \/ coder_pc = "loop" /\ ~LoopGoesOn(iteration)
    /\ coder_result' = [success |-> ReturnSuccess(coder_pc = "loop"),
                        has_error |-> FALSE, error |-> NoneStr,
                        created_files |-> created_files,
                        iterations |-> iteration]
    /\ coder_pc' = "returned"
    /\ UNCHANGED <<iteration, created_files, gateway_calls, last_turn, created_log>>
    /\ UNCHANGED outside_coder

CoderInit ==
    /\ OrchestratorAtRest
    /\ CoderAtRest
    /\ RetryAtRest
    /\ ChatAtRest
    /\ ToolsAtRest
    /\ ExtractAtRest
    /\ SnapshotAtRest
    /\ CliAtRest
    /\ DecideAtRest
    /\ LoopAtRest
    /\ DebuggerAtRest

CoderNext ==
    \/ CoderExecute
    \/ CoderIteration
    \/ CoderReturn

CoderSpec == CoderInit /\ [][CoderNext]_vars

----------------------------------------------------------------------------
(* LLMClient.retry_chat_completion (src/llm_client.py) *)

\* What chat_completion hands back: a success or a failure, told apart from
\* the results of other attempts by its content.
ChatResults == [success : BOOLEAN, content : {"r1", "r2"}]

RetryDelays == {1, 2}

\* A backoff that doubles.
SleepForDoubling(delay, n) == delay * 2 ^ n

\* line 160: time.sleep(retry_delay * (attempt + 1)), attempt counted from 0
SleepFor(delay, n) == delay * (n + 1)

\* A loop that keeps the result of its first attempt.
KeepFirst(old, new) == IF old = NoResponse THEN new ELSE old

\* line 147: result = self.chat_completion(...)
Assigned(old, new) == new

\* retry_chat_completion is called
RetryCall ==
    /\ retry_pc = "idle"
    /\ retry_pc' = "loop"
    /\ max_retries' \in 0..MaxRetries
    /\ retry_delay' \in RetryDelays
    /\ attempt' = 0
    /\ UNCHANGED <<retry_local, retry_result, attempt_log, sleeps>>
    /\ UNCHANGED outside_retry

\* lines 146-160: one pass of `for attempt in range(max_retries)`
RetryAttempt ==
    /\ retry_pc = "loop"
    /\ attempt < max_retries
    /\ UNCHANGED <<max_retries, retry_delay>>
    /\ UNCHANGED outside_retry
    /\ \E r \in ChatResults :
        /\ attempt_log' = Append(attempt_log, r)
        /\ retry_local' = Assigned(retry_local, r)
        /\ IF r.success
           THEN /\ retry_result' = Assigned(retry_local, r)
                /\ retry_pc' = "returned"
                /\ UNCHANGED <<attempt, sleeps>>
           ELSE /\ sleeps' = IF attempt < max_retries - 1
                             THEN Append(sleeps, SleepFor(retry_delay, attempt))
                             ELSE sleeps
                /\ attempt' = attempt + 1
                /\ UNCHANGED <<retry_pc, retry_result>>

\* line 163: `return result` after the loop; the name is unbound when the
\* loop body never ran, and the statement raises UnboundLocalError.
RetryReturn ==
    /\ retry_pc = "loop"
    /\ attempt >= max_retries
    /\ IF retry_local = NoResponse
       THEN retry_pc' = "raised" /\ UNCHANGED retry_result
       ELSE retry_pc' = "returned" /\ retry_result' = retry_local
    /\ UNCHANGED <<max_retries, retry_delay, attempt, retry_local, attempt_log, sleeps>>
    /\ UNCHANGED outside_retry

RetryInit ==
    /\ OrchestratorAtRest
    /\ CoderAtRest
    /\ RetryAtRest
    /\ ChatAtRest
    /\ ToolsAtRest
    /\ ExtractAtRest
    /\ SnapshotAtRest
    /\ CliAtRest
    /\ DecideAtRest
    /\ LoopAtRest
    /\ DebuggerAtRest

RetryNext ==
    \/ RetryCall
    \/ RetryAttempt
    \/ RetryReturn

RetrySpec == RetryInit /\ [][RetryNext]_vars

----------------------------------------------------------------------------
(* LLMClient.chat_completion (src/llm_client.py) *)

\* The characters of an argument string: the quote, the backslash, the
\* letters n and r, and the raw newline and carriage return.
Chars == {"Q", "B", "n", "r", "NL", "CR"}

RawBreaks == {"NL", "CR"}

\* the character an escape sequence \x stands for
Unescaped(x) ==
    CASE x = "n" -> "NL"
      [] x = "r" -> "CR"
      [] OTHER -> x

\* json.loads on a string of these characters.  The only JSON text they can
\* spell is a string literal with whitespace (NL, CR) around it; inside the
\* literal a raw control character is an error, and a backslash must be
\* followed by one of " \ n r.  mode is where the scan stands: "before"
\* the literal, "inside" it, or "after" it.
RECURSIVE JsonScan(_, _, _, _)
JsonScan(s, i, mode, acc) ==
    IF i > Len(s) THEN [ok |-> mode = "after", value |-> acc]
    ELSE IF mode = "before"
    THEN IF s[i] \in RawBreaks THEN JsonScan(s, i + 1, "before", acc)
         ELSE IF s[i] = "Q" THEN JsonScan(s, i + 1, "inside", acc)
         ELSE [ok |-> FALSE, value |-> <<>>]
    ELSE IF mode = "inside"
    THEN IF s[i] = "Q" THEN JsonScan(s, i + 1, "after", acc)
         ELSE IF s[i] \in RawBreaks THEN [ok |-> FALSE, value |-> <<>>]
         ELSE IF s[i] = "B"
         THEN IF i + 1 <= Len(s) /\ s[i + 1] \in {"Q", "B", "n", "r"}
              THEN JsonScan(s, i + 2, "inside", Append(acc, Unescaped(s[i + 1])))
              ELSE [ok |-> FALSE, value |-> <<>>]
         ELSE JsonScan(s, i + 1, "inside", Append(acc, s[i]))
    ELSE IF s[i] \in RawBreaks THEN JsonScan(s, i + 1, "after", acc)
         ELSE [ok |-> FALSE, value |-> <<>>]

JsonLoads(s) == JsonScan(s, 1, "before", <<>>)

\* how a raw newline or carriage return is written escaped
Escaped(x) == IF x = "NL" THEN <<"B", "n">> ELSE <<"B", "r">>

\* line 91: arguments.replace('\n', '\\n').replace('\r', '\\r')
RECURSIVE Cleaned(_)
Cleaned(s) ==
    IF s = <<>> THEN <<>>
    ELSE (IF Head(s) \in RawBreaks THEN Escaped(Head(s)) ELSE <<Head(s)>>)
         \o Cleaned(Tail(s))

\* lines 85-97: the arguments are parsed; on a decode error they are
\* cleaned and parsed once more; on a second error the call is skipped.
ParseArguments(arguments) ==
    IF JsonLoads(arguments).ok
    THEN [kept |-> TRUE, value |-> JsonLoads(arguments).value]
    ELSE IF JsonLoads(Cleaned(arguments)).ok
    THEN [kept |-> TRUE, value |-> JsonLoads(Cleaned(arguments)).value]
    ELSE [kept |-> FALSE, value |-> <<>>]

\* A loop that gives up the remaining calls after one it cannot parse.
AfterSkipStop(surfaced) == <<>>

\* lines 97 and 109: `continue` goes on with the next tool call
AfterSkip(surfaced) == surfaced

\* lines 82-109: the tool calls of the message, from the j-th on.  A call
\* whose `function` is missing raises inside the inner try and is skipped
\* like one that does not parse.
RECURSIVE SurfaceCalls(_, _)
SurfaceCalls(tcs, j) ==
    IF j > Len(tcs) THEN <<>>
    ELSE IF tcs[j].malformed THEN AfterSkip(SurfaceCalls(tcs, j + 1))
    ELSE IF ~ParseArguments(tcs[j].arguments).kept
    THEN AfterSkip(SurfaceCalls(tcs, j + 1))
    ELSE <<[id |-> tcs[j].id,
            arguments |-> ParseArguments(tcs[j].arguments).value]>>
         \o SurfaceCalls(tcs, j + 1)

\* An except clause that lets everything through.
CaughtNever(e) == FALSE

\* line 113: except Exception
Caught(e) == e.kind = "Exception"

IndexError == [kind |-> "Exception", msg |-> "list index out of range"]

\* lines 55-119: chat_completion, from the request to the return
ChatCompletion ==
    /\ chat_pc = "idle"
    /\ UNCHANGED backend
    /\ UNCHANGED outside_chat
    /\ LET e == IF backend.raises # NoExc THEN backend.raises
                ELSE IF ~backend.choices THEN IndexError
                ELSE NoExc
       IN IF e = NoExc
          THEN /\ chat_result' = [success |-> TRUE, error |-> NoneStr,
                                  content |-> "text",
                                  tool_calls |-> SurfaceCalls(backend.tool_calls, 1)]
               /\ chat_pc' = "returned"
               /\ UNCHANGED chat_raised
          ELSE IF Caught(e)
          THEN /\ chat_result' = [success |-> FALSE, error |-> e.msg,
                                  content |-> NoneStr, tool_calls |-> <<>>]
               /\ chat_pc' = "returned"
               /\ UNCHANGED chat_raised
          ELSE /\ chat_pc' = "raised"
               /\ chat_raised' = e
               /\ UNCHANGED chat_result

\* Argument strings of a response with several calls: one that parses, one
\* with a raw newline inside its literal, one with a newline before and one
\* inside the literal, and one that is cut short.
SampleArguments == {<<"Q", "n", "Q">>,
                    <<"Q", "NL", "Q">>,
                    <<"NL", "Q", "CR", "Q">>,
                    <<"Q", "n">>}

\* The tool_calls lists of a message: the id of a call is its position.
ToolCallLists ==
    UNION {{[j \in 1..n |-> [id |-> j, arguments |-> args[j], malformed |-> bad[j]]] :
              args \in [1..n -> SampleArguments], bad \in [1..n -> BOOLEAN]} :
           n \in 0..MaxListedCalls}

\* What the backend does: it raises, it answers without choices, or it
\* answers with a message.
Backends ==
    {[raises |-> e, choices |-> TRUE, tool_calls |-> <<>>] : e \in Exceptions}
    \cup {[raises |-> NoExc, choices |-> FALSE, tool_calls |-> <<>>]}
    \cup {[raises |-> NoExc, choices |-> TRUE, tool_calls |-> tcs] :
            tcs \in ToolCallLists}

ArgumentStrings == UNION {[1..n -> Chars] : n \in 0..MaxArgLen}

ChatInit ==
    /\ OrchestratorAtRest
    /\ CoderAtRest
    /\ RetryAtRest
    /\ ToolsAtRest
    /\ ExtractAtRest
    /\ SnapshotAtRest
    /\ CliAtRest
    /\ DecideAtRest
    /\ LoopAtRest
    /\ DebuggerAtRest
    /\ chat_pc = "idle"
    /\ backend \in Backends
    /\ chat_result = NoChatResult
    /\ chat_raised = NoExc

ChatNext == ChatCompletion

ChatSpec == ChatInit /\ [][ChatNext]_vars

\* A response with one tool call, its arguments any string.
ParseInit ==
    /\ OrchestratorAtRest
    /\ CoderAtRest
    /\ RetryAtRest
    /\ ToolsAtRest
    /\ ExtractAtRest
    /\ SnapshotAtRest
    /\ CliAtRest
    /\ DecideAtRest
    /\ LoopAtRest
    /\ DebuggerAtRest
    /\ chat_pc = "idle"
    /\ backend \in {[raises |-> NoExc, choices |-> TRUE,
                      tool_calls |-> <<[id |-> 1, arguments |-> s, malformed |-> FALSE]>>] :
                     s \in ArgumentStrings}
    /\ chat_result = NoChatResult
    /\ chat_raised = NoExc

ParseSpec == ParseInit /\ [][ChatNext]_vars

----------------------------------------------------------------------------
(* FilesystemTools (src/tools.py) *)

Front(s) == IF s = <<>> THEN <<>> ELSE SubSeq(s, 1, Len(s) - 1)

\* A path argument: absolute or relative, with its segments.
PathArgs ==
    [absolute : BOOLEAN,
     segs : UNION {[1..n -> {"..", "d", "f"}] : n \in 0..MaxPathLen}]

\* self.base_dir / path: pathlib joins without normalising, and an absolute
\* right-hand side replaces the left.  The result is the segments from the
\* root.
Join(path) == IF path.absolute THEN path.segs ELSE Base \o path.segs

\* The location the operating system reaches by a path from the root.
RECURSIVE Resolve(_)
Resolve(segs) ==
    IF segs = <<>> THEN <<>>
    ELSE IF segs[Len(segs)] = ".." THEN Front(Resolve(Front(segs)))
    ELSE Append(Resolve(Front(segs)), segs[Len(segs)])

\* every directory the path passes through exists
Walkable(segs, dirs) ==
    \A k \in 0..(Len(segs) - 1) : Resolve(SubSeq(segs, 1, k)) \in dirs

\* Path.exists()
Exists(segs, dirs, files) ==
    Walkable(segs, dirs) /\ Resolve(segs) \in dirs \cup files

\* Path.mkdir(parents=True, exist_ok=True): the directories along the path
\* are made where missing; it raises where the path meets a file.
MkdirParents(segs, dirs, files) ==
    LET blocked == {k \in 0..Len(segs) : Resolve(SubSeq(segs, 1, k)) \in files}
        upto == IF blocked = {} THEN Len(segs)
                ELSE (CHOOSE k \in blocked : \A j \in blocked : k <= j) - 1
    IN [ok |-> blocked = {},
        dirs |-> dirs \cup {Resolve(SubSeq(segs, 1, k)) : k \in 0..upto}]

\* The characters of a content string: a letter, a line feed, a carriage
\* return, a letter outside ASCII and a lone surrogate.
ContentChars == {"a", "LF", "CR", "e_acute", "surrogate"}

Contents == UNION {[1..n -> ContentChars] : n \in 0..MaxContentLen}

\* os.linesep
LineSep == <<"LF">>

Encodable(content) == \A k \in 1..Len(content) : content[k] # "surrogate"

\* f.write of a file opened with open(path, 'w', encoding='utf-8'): every
\* line feed becomes os.linesep, then the text is encoded as UTF-8.
RECURSIVE WriteText(_)
WriteText(content) ==
    IF content = <<>> THEN <<>>
    ELSE LET c == Head(content)
             bytes == CASE c = "a" -> <<"61">>
                        [] c = "LF" -> [k \in 1..Len(LineSep) |->
                                          IF LineSep[k] = "LF" THEN "0A" ELSE "0D"]
                        [] c = "CR" -> <<"0D">>
                        [] c = "e_acute" -> <<"C3", "A9">>
                        [] OTHER -> <<>>
         IN bytes \o WriteText(Tail(content))

\* f.read of a file opened with open(path, 'r', encoding='utf-8'): the
\* bytes are decoded as UTF-8, and every carriage return, with the line
\* feed after it if there is one, becomes one line feed.
RECURSIVE ReadText(_)
ReadText(bytes) ==
    IF bytes = <<>> THEN <<>>
    ELSE IF Head(bytes) = "0D"
         THEN IF Len(bytes) >= 2 /\ bytes[2] = "0A"
              THEN <<"LF">> \o ReadText(Tail(Tail(bytes)))
              ELSE <<"LF">> \o ReadText(Tail(bytes))
    ELSE IF Head(bytes) = "0A" THEN <<"LF">> \o ReadText(Tail(bytes))
    ELSE IF Head(bytes) = "C3" THEN <<"e_acute">> \o ReadText(Tail(Tail(bytes)))
    ELSE <<"a">> \o ReadText(Tail(bytes))

\* lines 105-123: open(.., 'w') makes or empties the file before write
\* raises for a content that cannot be encoded.
CreateFile ==
    /\ tool_ops < MaxOps
    /\ tool_ops' = tool_ops + 1
    /\ UNCHANGED outside_tools
    /\ \E path \in PathArgs, content \in Contents :
        LET full_path == Join(path)
            made == MkdirParents(Front(full_path), fs_dirs, fs_files)
            opened == made.ok /\ Resolve(full_path) \notin made.dirs
            written == opened /\ Encodable(content)
        IN /\ fs_dirs' = made.dirs
           /\ fs_files' = IF opened THEN fs_files \cup {Resolve(full_path)}
                          ELSE fs_files
           /\ fs_content' =
                IF opened
                THEN [location \in fs_files \cup {Resolve(full_path)} |->
                        IF location # Resolve(full_path) THEN fs_content[location]
                        ELSE IF written THEN WriteText(content) ELSE <<>>]
                ELSE fs_content
           /\ touched' = touched \cup (made.dirs \ fs_dirs)
                           \cup (IF opened THEN {Resolve(full_path)} ELSE {})
           /\ tool_result' = ToolResult("create_file", path, written, {}, <<>>)
           /\ last_write' = IF written THEN [path |-> path, content |-> content]
                            ELSE NoWrite

\* lines 125-148
ReadFile ==
    /\ tool_ops < MaxOps
    /\ tool_ops' = tool_ops + 1
    /\ UNCHANGED <<fs_dirs, fs_files, fs_content>>
    /\ UNCHANGED outside_tools
    /\ \E path \in PathArgs :
        LET full_path == Join(path)
            read == /\ Exists(full_path, fs_dirs, fs_files)
                    /\ Resolve(full_path) \in fs_files
        IN /\ touched' = touched \cup (IF read THEN {Resolve(full_path)} ELSE {})
           /\ tool_result' =
                ToolResult("read_file", path, read, {},
                           IF read THEN ReadText(fs_content[Resolve(full_path)])
                           ELSE <<>>)
           /\ UNCHANGED last_write

\* lines 150-176: rglob walks everything below the directory, and
\* relative_to raises for an item whose path does not begin with base_dir,
\* which is a relative path itself.
ListFiles ==
    /\ tool_ops < MaxOps
    /\ tool_ops' = tool_ops + 1
    /\ UNCHANGED <<fs_dirs, fs_files, fs_content>>
    /\ last_write' = NoWrite
    /\ UNCHANGED outside_tools
    /\ \E directory \in PathArgs :
        LET full_path == Join(directory)
            walked == /\ Exists(full_path, fs_dirs, fs_files)
                      /\ Resolve(full_path) \in fs_dirs
            below == {f \in fs_files : IsPrefix(Resolve(full_path), f)}
            relative == ~directory.absolute
        IN /\ touched' = touched \cup
                            (IF walked THEN {Resolve(full_path)} \cup below ELSE {})
           /\ tool_result' =
                ToolResult("list_files", directory,
                           /\ Exists(full_path, fs_dirs, fs_files)
                           /\ walked => (below = {} \/ relative),
                           IF walked /\ relative THEN below ELSE {}, <<>>)

\* lines 178-193
CreateDirectory ==
    /\ tool_ops < MaxOps
    /\ tool_ops' = tool_ops + 1
    /\ UNCHANGED <<fs_files, fs_content>>
    /\ last_write' = NoWrite
    /\ UNCHANGED outside_tools
    /\ \E path \in PathArgs :
        LET made == MkdirParents(Join(path), fs_dirs, fs_files)
        IN /\ fs_dirs' = made.dirs
           /\ touched' = touched \cup (made.dirs \ fs_dirs)
           /\ tool_result' = ToolResult("create_directory", path, made.ok, {}, <<>>)

ToolsInit ==
    /\ OrchestratorAtRest
    /\ CoderAtRest
    /\ RetryAtRest
    /\ ChatAtRest
    /\ ToolsAtRest
    /\ ExtractAtRest
    /\ SnapshotAtRest
    /\ CliAtRest
    /\ DecideAtRest
    /\ LoopAtRest
    /\ DebuggerAtRest

ToolsNext ==
    \/ CreateFile
    \/ ReadFile
    \/ ListFiles
    \/ CreateDirectory

ToolsSpec == ToolsInit /\ [][ToolsNext]_vars

----------------------------------------------------------------------------
(* Structured output: the JSON of a response (src/agents.py) *)

\* Texts are sequences of characters; Q is the double quote, BT the
\* backtick and NL the line feed.
Fence == <<"BT", "BT", "BT">>

JsonFence == Fence \o <<"j", "s", "o", "n">>

Whitespace == {"NL"}

\* pat stands in s at the 0-based index i
StandsAt(s, pat, i) ==
    /\ i >= 0
    /\ i + Len(pat) <= Len(s)
    /\ \A k \in 1..Len(pat) : s[i + k] = pat[k]

\* str.find(pat, from)
Find(s, pat, from) ==
    LET hits == {i \in from..Len(s) : StandsAt(s, pat, i)}
    IN IF hits = {} THEN -1 ELSE CHOOSE i \in hits : \A j \in hits : i <= j

\* str.rfind(pat)
RFind(s, pat) ==
    LET hits == {i \in 0..Len(s) : StandsAt(s, pat, i)}
    IN IF hits = {} THEN -1 ELSE CHOOSE i \in hits : \A j \in hits : i >= j

\* an index of a slice, as Python reads it
SliceIndex(s, i) ==
    IF i < 0 THEN (IF i + Len(s) < 0 THEN 0 ELSE i + Len(s))
    ELSE IF i > Len(s) THEN Len(s) ELSE i

\* s[a:b]
Slice(s, a, b) ==
    IF SliceIndex(s, a) >= SliceIndex(s, b) THEN <<>>
    ELSE SubSeq(s, SliceIndex(s, a) + 1, SliceIndex(s, b))

\* str.strip()
RECURSIVE Strip(_)
Strip(s) ==
    IF s = <<>> THEN s
    ELSE IF s[1] \in Whitespace THEN Strip(Tail(s))
    ELSE IF s[Len(s)] \in Whitespace THEN Strip(SubSeq(s, 1, Len(s) - 1))
    ELSE s

\* lines 191-204 and 561-573: the text handed to json.loads
ExtractJson(content) ==
    IF Find(content, JsonFence, 0) # -1
    THEN LET json_start == Find(content, JsonFence, 0) + 7
         IN Strip(Slice(content, json_start, Find(content, Fence, json_start)))
    ELSE IF Find(content, Fence, 0) # -1
    THEN LET json_start == Find(content, Fence, 0) + 3
         IN Strip(Slice(content, json_start, Find(content, Fence, json_start)))
    ELSE Strip(Slice(content, Find(content, <<"{">>, 0), RFind(content, <<"}">>) + 1))

\* JSON values: numbers, strings, and objects of at most one member.
NoValue == [type |-> "none"]

Unparsed == [ok |-> FALSE, value |-> NoValue, next |-> 0]

RECURSIVE SkipWhitespace(_, _)
SkipWhitespace(s, i) ==
    IF i <= Len(s) /\ s[i] \in Whitespace THEN SkipWhitespace(s, i + 1) ELSE i

\* the end of the run of digits that begins at i
RECURSIVE DigitsEnd(_, _)
DigitsEnd(s, i) == IF i <= Len(s) /\ s[i] = "1" THEN DigitsEnd(s, i + 1) ELSE i

\* a string literal that begins at i: it runs to the next quote and holds no
\* raw line feed
ScanString(s, i) ==
    LET close == Find(s, <<"Q">>, i)
    IN IF i > Len(s) \/ s[i] # "Q" \/ close = -1 THEN Unparsed
       ELSE IF \E k \in (i + 1)..close : s[k] = "NL" THEN Unparsed
       ELSE [ok |-> TRUE,
             value |-> [type |-> "string", text |-> SubSeq(s, i + 1, close)],
             next |-> close + 2]

\* the value that begins at i
RECURSIVE ScanValue(_, _)
ScanValue(s, i) ==
    IF i > Len(s) THEN Unparsed
    ELSE IF s[i] = "1"
    THEN [ok |-> TRUE,
          value |-> [type |-> "number", text |-> SubSeq(s, i, DigitsEnd(s, i) - 1)],
          next |-> DigitsEnd(s, i)]
    ELSE IF s[i] = "Q" THEN ScanString(s, i)
    ELSE IF s[i] = "{"
    THEN LET k == SkipWhitespace(s, i + 1)
         IN IF k <= Len(s) /\ s[k] = "}"
            THEN [ok |-> TRUE, value |-> [type |-> "object", members |-> <<>>],
                  next |-> k + 1]
            ELSE LET key == ScanString(s, k)
                     colon == SkipWhitespace(s, key.next)
                 IN IF ~key.ok \/ colon > Len(s) \/ s[colon] # ":" THEN Unparsed
                    ELSE LET member == ScanValue(s, SkipWhitespace(s, colon + 1))
                             close == SkipWhitespace(s, member.next)
                         IN IF ~member.ok \/ close > Len(s) \/ s[close] # "}"
                            THEN Unparsed
                            ELSE [ok |-> TRUE,
                                  value |-> [type |-> "object",
                                             members |-> <<key.value.text, member.value>>],
                                  next |-> close + 1]
    ELSE Unparsed

\* json.loads(json_str): the value, or NoValue for JSONDecodeError
JsonValue(s) ==
    LET v == ScanValue(s, SkipWhitespace(s, 1))
    IN IF v.ok /\ SkipWhitespace(s, v.next) = Len(s) + 1 THEN v.value ELSE NoValue

\* lines 206-223 and 575-592: the value is returned; JSONDecodeError is
\* answered with a failure; plan.get(..) and evaluation.get(..) raise
\* AttributeError on a value that is no object.
Parsed(content) ==
    LET value == JsonValue(ExtractJson(content))
    IN IF value = NoValue THEN [outcome |-> "failed"]
       ELSE IF value.type # "object" THEN [outcome |-> "raised"]
       ELSE [outcome |-> "parsed", value |-> value]

\* The pieces of text a key is made of.
KeyPieces == {Fence, <<"1">>, <<"x">>}

RECURSIVE Flatten(_)
Flatten(pieces) ==
    IF pieces = <<>> THEN <<>> ELSE Head(pieces) \o Flatten(Tail(pieces))

Keys == UNION {[1..n -> KeyPieces] : n \in 0..MaxKeyLen}

Values == {<<"1">>, <<"Q", "x", "Q">>, <<"{", "}">>}

Fences == {"none", "plain", "json"}

\* the text of a JSON object with one member
ObjectText(key, value, spaced) ==
    LET gap == IF spaced THEN <<"NL">> ELSE <<>>
    IN <<"{">> \o gap \o <<"Q">> \o Flatten(key) \o <<"Q", ":">> \o value
         \o gap \o <<"}">>

\* the response: the text alone, or inside one fenced block
Response(text, fence) ==
    CASE fence = "none" -> text
      [] fence = "plain" -> Fence \o <<"NL">> \o text \o <<"NL">> \o Fence
      [] fence = "json" -> JsonFence \o <<"NL">> \o text \o <<"NL">> \o Fence

\* the text and the response of an input
TextOf(input) == ObjectText(input.key, input.value, input.spaced)

ResponseOf(input) == Response(TextOf(input), input.fence)

Inputs == [key : Keys, value : Values, spaced : BOOLEAN, fence : Fences]

\* ProjectPlanningAgent.execute, lines 186-223
PlannerParse ==
    /\ extract_pc = "idle"
    /\ extract_pc' = "planner"
    /\ extract_input' \in Inputs
    /\ extract_result' = Parsed(ResponseOf(extract_input'))
    /\ UNCHANGED outside_extract

\* CodeEvaluationAgent.execute, lines 558-592
EvaluatorParse ==
    /\ extract_pc = "idle"
    /\ extract_pc' = "evaluator"
    /\ extract_input' \in Inputs
    /\ extract_result' = Parsed(ResponseOf(extract_input'))
    /\ UNCHANGED outside_extract

ExtractInit ==
    /\ OrchestratorAtRest
    /\ CoderAtRest
    /\ RetryAtRest
    /\ ChatAtRest
    /\ ToolsAtRest
    /\ ExtractAtRest
    /\ SnapshotAtRest
    /\ CliAtRest
    /\ DecideAtRest
    /\ LoopAtRest
    /\ DebuggerAtRest

ExtractNext ==
    \/ PlannerParse
    \/ EvaluatorParse

ExtractSpec == ExtractInit /\ [][ExtractNext]_vars

----------------------------------------------------------------------------
(* The lists of RunState as objects (src/orchestrator.py)                   *)
(* A dict handed out refers to list objects; what is read through it later  *)
(* is what those objects hold then.                                         *)

RECURSIVE TotalLen(_)
TotalLen(lists) ==
    IF lists = <<>> THEN 0 ELSE Len(Head(lists)) + TotalLen(Tail(lists))

\* the values the lists referred to hold
Deref(h, r) == [f \in ListFields |-> h[r[f]]]

\* self.state.copy(), line 335: a new dict that refers to the same lists
ShallowCopy(r) == r

\* _build_result, lines 320-323: the result refers to the lists of
\* self.state
ResultLists(r) == r

\* execute() is called; it leaves self.state as it is
SnapExecute ==
    /\ snap_pc \in {"idle", "returned"}
    /\ snap_pc' = "coding"
    /\ UNCHANGED <<heap, refs, snap>>
    /\ UNCHANGED outside_snapshot

\* _execute_coding, lines 176-179: append and extend change the lists in
\* place
SnapCodingTask ==
    /\ snap_pc = "coding"
    /\ TotalLen(heap) + 2 <= MaxEntries
    /\ \E task_id \in {"T1", "T2"}, file \in {"a.js", "b.js"} :
        heap' = [heap EXCEPT ![refs.tasks_completed] = Append(@, task_id),
                             ![refs.all_created_files] = @ \o <<file>>]
    /\ UNCHANGED <<refs, snap, snap_pc>>
    /\ UNCHANGED outside_snapshot

\* _execute_evaluation, line 224
SnapEvaluateTask ==
    /\ snap_pc \in {"coding", "evaluating"}
    /\ TotalLen(heap) < MaxEntries
    /\ snap_pc' = "evaluating"
    /\ heap' = [heap EXCEPT ![refs.evaluations] = Append(@, "good")]
    /\ UNCHANGED <<refs, snap>>
    /\ UNCHANGED outside_snapshot

\* _execute_debugging, lines 258-260
SnapDebugging ==
    /\ snap_pc \in {"coding", "evaluating"}
    /\ snap_pc' = "debugged"
    /\ \E fixed_files \in {<<>>, <<"a.js">>, <<"fix.js">>} :
        /\ TotalLen(heap) + Len(fixed_files) <= MaxEntries
        /\ heap' = [heap EXCEPT ![refs.all_created_files] = MergeFixed(@, fixed_files)]
    /\ UNCHANGED <<refs, snap>>
    /\ UNCHANGED outside_snapshot

\* execute, line 136: the result is handed out
SnapReturn ==
    /\ snap_pc = "debugged"
    /\ snap_pc' = "returned"
    /\ snap' = [kind |-> "result", refs |-> ResultLists(refs),
                seen |-> Deref(heap, ResultLists(refs))]
    /\ UNCHANGED <<heap, refs>>
    /\ UNCHANGED outside_snapshot

\* get_state(), lines 333-335, called between runs or by the callback
GetState ==
    /\ snap' = [kind |-> "state", refs |-> ShallowCopy(refs),
                seen |-> Deref(heap, ShallowCopy(refs))]
    /\ UNCHANGED <<heap, refs, snap_pc>>
    /\ UNCHANGED outside_snapshot

\* reset(), lines 337-350: self.state refers to three new lists
SnapReset ==
    /\ snap_pc \in {"idle", "returned"}
    /\ Len(heap) + 3 <= MaxObjects
    /\ heap' = heap \o <<<<>>, <<>>, <<>>>>
    /\ refs' = [tasks_completed |-> Len(heap) + 1, all_created_files |-> Len(heap) + 2,
                evaluations |-> Len(heap) + 3]
    /\ snap_pc' = "idle"
    /\ UNCHANGED snap
    /\ UNCHANGED outside_snapshot

SnapshotInit ==
    /\ OrchestratorAtRest
    /\ CoderAtRest
    /\ RetryAtRest
    /\ ChatAtRest
    /\ ToolsAtRest
    /\ ExtractAtRest
    /\ SnapshotAtRest
    /\ CliAtRest
    /\ DecideAtRest
    /\ LoopAtRest
    /\ DebuggerAtRest

SnapshotNext ==
    \/ SnapExecute
    \/ SnapCodingTask
    \/ SnapEvaluateTask
    \/ SnapDebugging
    \/ SnapReturn
    \/ GetState
    \/ SnapReset

SnapshotSpec == SnapshotInit /\ [][SnapshotNext]_vars

----------------------------------------------------------------------------
(* CodeDebuggerAgent.analyze_and_fix (src/debugger_agent.py) *)

\* The paths the Debugger is asked to look at.
DebugPaths == {"a.js", "b.js"}

\* The lists of files it is called with; the Orchestrator passes a list
\* that is not empty.
DebugFileLists == UNION {[1..n -> DebugPaths] : n \in 0..MaxDebugFiles}

\* lines 105-111: file_contents holds the files read_file could read
FileContents(files, readable) == {files[i] : i \in 1..Len(files)} \cap readable

\* A loop that goes on to the next iteration after a failed gateway call.
AfterFailedCallContinue == "loop"

\* lines 171-173: a failed gateway call breaks the loop
AfterFailedCall == "done"

\* A Debugger that reports a failure when its last gateway call failed.
DebugSuccessUnlessFailedCall(turn) == turn.gateway # "failure"

\* line 250: "success": True, however the loop ended
DebugSuccess(turn) == TRUE

\* lines 100-158: analyze_and_fix is entered and reads its files; it
\* returns a failure when it could read none.
DebuggerExecute ==
    /\ debug_pc = "idle"
    /\ \E files \in DebugFileLists, readable \in SUBSET DebugPaths :
          LET file_contents == FileContents(files, readable)
          IN /\ debug_input' = [files |-> files, file_contents |-> file_contents]
             /\ IF file_contents = {}
                THEN /\ debug_pc' = "returned"
                     /\ debug_result' = [success |-> FALSE, has_error |-> TRUE,
                                         fixed_files |-> <<>>, analysis |-> "none",
                                         iterations |-> 0]
                ELSE /\ debug_pc' = "loop"
                     /\ UNCHANGED debug_result
    /\ debug_iteration' = 0
    /\ debug_fixed' = <<>>
    /\ analysis_result' = "none"
    /\ UNCHANGED <<debug_calls, debug_turn>>
    /\ UNCHANGED outside_debugger

\* lines 160-247: one iteration of the loop.  The analysis is taken from
\* the first response whose content holds JSON: a dict, or a value that is
\* no dict.
DebuggerIteration ==
    /\ debug_pc = "loop"
    /\ debug_iteration < DebuggerMaxIterations
    /\ debug_iteration' = debug_iteration + 1
    /\ debug_calls' = debug_calls + 1
    /\ UNCHANGED <<debug_input, debug_result>>
    /\ UNCHANGED outside_debugger
    /\ \/ /\ debug_pc' = AfterFailedCall          \* lines 171-173
          /\ debug_turn' = [iteration |-> debug_iteration + 1, gateway |-> "failure",
                            requested |-> 0, executed |-> 0]
          /\ UNCHANGED <<debug_fixed, analysis_result>>
       \/ \E found \in {"none", "dict", "nondict"} :
            /\ analysis_result' = IF analysis_result = "none" THEN found
                                  ELSE analysis_result
            /\ \/ /\ debug_pc' = "done"           \* lines 226-228
                  /\ debug_turn' = [iteration |-> debug_iteration + 1,
                                    gateway |-> "success",
                                    requested |-> 0, executed |-> 0]
                  /\ UNCHANGED debug_fixed
               \/ \E batch \in ToolBatches :      \* lines 231-247
                    LET r == RunTools(batch, debug_iteration + 1, 1)
                    IN /\ debug_fixed' = debug_fixed \o r.created
                       /\ debug_turn' = [iteration |-> debug_iteration + 1,
                                         gateway |-> "success",
                                         requested |-> Len(batch),
                                         executed |-> r.executed]
                       /\ debug_pc' = IF r.raised THEN "raised" ELSE "loop"

\* lines 249-254: the loop has ended, by break or at its ceiling
DebuggerReturn ==
    /\ \/ debug_pc = "done"
       \/ debug_pc = "loop" /\ ~(debug_iteration < DebuggerMaxIterations)
    /\ debug_result' = [success |-> DebugSuccess(debug_turn), has_error |-> FALSE,
                        fixed_files |-> debug_fixed, analysis |-> analysis_result,
                        iterations |-> debug_iteration]
    /\ debug_pc' = "returned"
    /\ UNCHANGED <<debug_input, debug_iteration, debug_fixed, analysis_result,
                   debug_calls, debug_turn>>
    /\ UNCHANGED outside_debugger

DebuggerInit ==
    /\ OrchestratorAtRest
    /\ CoderAtRest
    /\ RetryAtRest
    /\ ChatAtRest
    /\ ToolsAtRest
    /\ ExtractAtRest
    /\ SnapshotAtRest
    /\ CliAtRest
    /\ DecideAtRest
    /\ LoopAtRest
    /\ DebuggerAtRest

DebuggerNext ==
    \/ DebuggerExecute
    \/ DebuggerIteration
    \/ DebuggerReturn

DebuggerSpec == DebuggerInit /\ [][DebuggerNext]_vars

----------------------------------------------------------------------------
(* The tool loops of CodeGenerationAgent.execute (src/agents.py, lines     *)
(* 358-458) and CodeDebuggerAgent.analyze_and_fix (src/debugger_agent.py,  *)
(* lines 146-254), followed one tool call at a time                        *)

\* max_iterations of the loop of an agent
LoopCeiling(agent) ==
    IF agent = "Coder" THEN CoderMaxIterations ELSE DebuggerMaxIterations

\* A message of the transcript: its role, the ids of the tool calls an
\* assistant message carries, the tool_call_id of a tool message.
Message(role, ids, id) == [role |-> role, tool_calls |-> ids, tool_call_id |-> id]

NoCallId == <<0, 0>>

\* tc["id"]: the id the gateway gave the j-th tool call of turn k
CallId(k, j) == <<k, j>>

\* The transcript before the loop: system prompt and request, and for the
\* Coder the context when one is given.
InitialMessages(agent, context) ==
    <<Message("system", <<>>, NoCallId), Message("user", <<>>, NoCallId)>>
    \o (IF agent = "Coder" /\ context
        THEN <<Message("user", <<>>, NoCallId)>> ELSE <<>>)

\* the list formatted_tool_calls: one entry for each tool call, in order
FormattedToolCalls(tcs) == [j \in 1..Len(tcs) |-> tcs[j].id]

\* the agent is invoked and reaches its loop
LoopStart ==
    /\ loop_pc = "idle"
    /\ \E agent \in {"Coder", "Debugger"}, context \in BOOLEAN :
          /\ loop_agent' = agent
          /\ messages' = InitialMessages(agent, context)
    /\ loop_pc' = "call_model"
    /\ loop_iteration' = 0
    /\ UNCHANGED <<tool_calls, tool_index, executions>>
    /\ UNCHANGED outside_loop

\* agents.py lines 374-430, debugger_agent.py lines 160-228: the head of an
\* iteration, from the gateway call to the assistant message
CallModel ==
    /\ loop_pc = "call_model"
    /\ loop_iteration < LoopCeiling(loop_agent)
    /\ loop_iteration' = loop_iteration + 1
    /\ UNCHANGED <<loop_agent, executions>>
    /\ UNCHANGED outside_loop
    /\ \/ /\ loop_pc' = "ended"                   \* not response["success"]
          /\ UNCHANGED <<messages, tool_calls, tool_index>>
       \/ /\ messages' = Append(messages, Message("assistant", <<>>, NoCallId))
          /\ loop_pc' = "ended"                   \* no tool calls: break
          /\ tool_calls' = <<>>
          /\ tool_index' = 1
       \/ \E batch \in ToolBatches :
            LET tcs == [j \in 1..Len(batch) |->
                          [id |-> CallId(loop_iteration + 1, j), kind |-> batch[j]]]
            IN /\ tool_calls' = tcs
               /\ messages' = Append(messages,
                                Message("assistant", FormattedToolCalls(tcs), NoCallId))
               /\ tool_index' = 1
               /\ loop_pc' = "tools"

\* agents.py lines 433-451, debugger_agent.py lines 231-247: one pass of
\* the for-loop over response["tool_calls"]
ExecuteToolCall ==
    /\ loop_pc = "tools"
    /\ LET tool_call == tool_calls[tool_index]
       IN /\ executions' = Append(executions, tool_call.id)
          /\ IF ExecuteToolRaises(CallOf(tool_call.kind).name, CallOf(tool_call.kind).keys)
             THEN /\ loop_pc' = "raised"
                  /\ UNCHANGED <<messages, tool_index>>
             ELSE /\ messages' = Append(messages, Message("tool", <<>>, tool_call.id))
                  /\ tool_index' = tool_index + 1
                  /\ loop_pc' = IF tool_index = Len(tool_calls) THEN "call_model"
                                ELSE "tools"
    /\ UNCHANGED <<loop_agent, loop_iteration, tool_calls>>
    /\ UNCHANGED outside_loop

\* agents.py line 374, debugger_agent.py line 160: the while condition is
\* false and the agent returns
LoopEnd ==
    /\ loop_pc = "call_model"
    /\ ~(loop_iteration < LoopCeiling(loop_agent))
    /\ loop_pc' = "ended"
    /\ UNCHANGED <<loop_agent, loop_iteration, messages, tool_calls, tool_index,
                   executions>>
    /\ UNCHANGED outside_loop

LoopInit ==
    /\ OrchestratorAtRest
    /\ CoderAtRest
    /\ RetryAtRest
    /\ ChatAtRest
    /\ ToolsAtRest
    /\ ExtractAtRest
    /\ SnapshotAtRest
    /\ CliAtRest
    /\ DecideAtRest
    /\ LoopAtRest
    /\ DebuggerAtRest

LoopNext ==
    \/ LoopStart
    \/ CallModel
    \/ ExecuteToolCall
    \/ LoopEnd

LoopSpec == LoopInit /\ [][LoopNext]_vars

----------------------------------------------------------------------------
(* Runs to their end.  execute() calls its agents one after the other and  *)
(* waits for each: a behaviour is a run of execute() whose agent calls     *)
(* return, or one invocation of the Coder, or one of the Debugger.  The    *)
(* interpreter goes on to the next statement while there is one.           *)

TerminationNext ==
    \/ coder_pc = "idle" /\ debug_pc = "idle" /\ Next
    \/ pc = "idle" /\ debug_pc = "idle" /\ CoderNext
    \/ pc = "idle" /\ coder_pc = "idle" /\ DebuggerNext

TerminationSpec == Init /\ [][TerminationNext]_vars /\ WF_vars(TerminationNext)

----------------------------------------------------------------------------
(* Reading the histories *)

CallsOf(agent) == SelectSeq(calls, LAMBDA c : c.agent = agent)

\* status was assigned this value in the run
Entered(status) == InList(status, status_trace)

\* execute() has returned without meeting an exception
ReturnedNormally == pc = "returned" /\ raised = NoExc

PlanningSucceeded == calls # <<>> /\ calls[1].outcome = "success"

\* the task ids of the Coder invocations that succeeded, in order
RECURSIVE CompletedBy(_, _)
CompletedBy(cs, i) ==
    IF cs = <<>> THEN <<>>
    ELSE (IF Head(cs).outcome = "success"
          THEN <<TaskIdOf(Head(cs).task, i)>> ELSE <<>>)
         \o CompletedBy(Tail(cs), i + 1)

\* the files the successful Coder invocations reported, in order
RECURSIVE CreatedBy(_)
CreatedBy(cs) ==
    IF cs = <<>> THEN <<>>
    ELSE (IF Head(cs).outcome = "success" THEN Head(cs).out ELSE <<>>)
         \o CreatedBy(Tail(cs))

PhaseSequence == <<"planning", "coding", "evaluating", "debugging", "completed">>

AgentPhase(agent) ==
    CASE agent = "Planner" -> "planning"
      [] agent = "Coder" -> "coding"
      [] agent = "Evaluator" -> "evaluating"
      [] agent = "Debugger" -> "debugging"

AgentRank(agent) ==
    CASE agent = "Planner" -> 1
      [] agent = "Coder" -> 2
      [] agent = "Evaluator" -> 3
      [] agent = "Debugger" -> 4

----------------------------------------------------------------------------
(* Claims *)

C2_PlanningFailureIsFatal ==
    (calls # <<>> /\ calls[1].outcome = "failure") =>
        /\ pc = "returned"
        /\ ~result.success
        /\ result.status = "failed"
        /\ state.status = "failed"
        /\ CallsOf("Coder") = <<>>
        /\ CallsOf("Evaluator") = <<>>
        /\ CallsOf("Debugger") = <<>>

\* The Planner has returned a failure.
C2_Witness ==
    pc = "returned" /\ Len(calls) = 1 /\ calls[1].outcome = "failure"
        /\ ~result.success

\* C3: a coding task that fails is left out of tasks_completed (which holds
\* exactly the ids of the tasks whose coding succeeded), the Coder is still
\* invoked for every later task, and the run goes on to the evaluation
\* phase: where no exception is met the failure does not fail the run.
C3_CodingFailureContinues ==
    /\ state.tasks_completed = CompletedBy(CallsOf("Coder"), 1)
    /\ Entered("evaluating") => Len(CallsOf("Coder")) = Len(state.tasks_pending)
    /\ (raised = NoExc /\ PlanningSucceeded) => state.status # "failed"
    /\ (ReturnedNormally /\ PlanningSucceeded) =>
            result.success /\ Entered("evaluating")

\* A run whose first coding task failed, whose second
\* succeeded and was evaluated, and which completed.
C3_Witness ==
    /\ ReturnedNormally /\ result.success
    /\ Len(CallsOf("Coder")) = 2
    /\ CallsOf("Coder")[1].outcome = "failure"
    /\ CallsOf("Coder")[2].outcome = "success"
    /\ Len(state.tasks_completed) = 1
    /\ Len(CallsOf("Evaluator")) = 1

\* C4: execute() never raises: whatever exception the phase sequence meets,
\* execute() returns a result with success=false, status "failed" and an
\* error string.  (Read for the exceptions `except Exception` can catch.)
C4_NeverRaises ==
    raised.kind = "Exception" =>
        /\ pc = "returned"
        /\ ~result.success
        /\ result.status = "failed"
        /\ result.has_error

\* s is t with some entries left out
RECURSIVE IsSubsequence(_, _)
IsSubsequence(s, t) ==
    IF s = <<>> THEN TRUE
    ELSE IF t = <<>> THEN FALSE
    ELSE IF Head(s) = Head(t) THEN IsSubsequence(Tail(s), Tail(t))
    ELSE IsSubsequence(s, Tail(t))

\* the tasks the Coder was invoked with, in order
CodedTasks == [i \in 1..Len(CallsOf("Coder")) |-> CallsOf("Coder")[i].task]

\* the ids under which the plan's tasks are recorded, in plan order
PlanTaskIds ==
    [i \in 1..Len(state.tasks_pending) |-> TaskIdOf(state.tasks_pending[i], i)]

\* C5: the Coder is invoked once for each task of the plan's task list, in
\* list order, whatever the dependencies say: at any moment it has been
\* invoked with the first tasks of the list, with all of them once the
\* coding phase is over, and tasks_completed is in plan order.
C5_CodingInPlanOrder ==
    /\ IsPrefix(CodedTasks, state.tasks_pending)
    /\ Entered("evaluating") => CodedTasks = state.tasks_pending
    /\ IsSubsequence(state.tasks_completed, PlanTaskIds)
    /\ ~state.plan.none /\ state.plan.has_tasks => state.tasks_pending = state.plan.tasks

\* T1 lists T2 as a dependency and was coded before it.
C5_Witness ==
    /\ ReturnedNormally
    /\ state.plan.tasks = <<TaskA, TaskB>>
    /\ InList("T2", TaskA.dependencies)
    /\ CodedTasks = <<TaskA, TaskB>>
    /\ state.tasks_completed = <<"T1", "T2">>

\* the evaluation phase has returned
EvaluationOver == pc = "debugging" \/ Entered("debugging")

\* The Evaluator invocations _execute_evaluation owes for the completed
\* tasks: one for each entry whose plan task declares files, with them.
RECURSIVE OwedEvaluations(_, _)
OwedEvaluations(completed, plan) ==
    IF completed = <<>> THEN <<>>
    ELSE LET found == FindTask(plan, Head(completed))
         IN (IF found.kind = "found" /\ found.task.files # <<>>
             THEN <<[task |-> found.task, files |-> found.task.files]>>
             ELSE <<>>)
            \o OwedEvaluations(Tail(completed), plan)

DoneEvaluations ==
    [i \in 1..Len(CallsOf("Evaluator")) |->
        [task |-> CallsOf("Evaluator")[i].task, files |-> CallsOf("Evaluator")[i].files]]

\* C6 as stated: once the evaluation phase is over, the Evaluator was
\* invoked exactly once for every entry of tasks_completed whose plan task
\* declares a file, with the plan-declared files.
C6_Original ==
    EvaluationOver =>
        DoneEvaluations = OwedEvaluations(state.tasks_completed, state.plan)

\* C6, amended: the same when the coding phase created a file; when it
\* created none the Evaluator is not invoked at all.
C6_EvaluatesDeclaredFiles ==
    EvaluationOver =>
        DoneEvaluations =
            IF CreatedBy(CallsOf("Coder")) = <<>> THEN <<>>
            ELSE OwedEvaluations(state.tasks_completed, state.plan)

\* Two tasks completed; the one without declared files was skipped and
\* the other evaluated on its declared file, not on the file created.
C6_Witness ==
    /\ pc = "decide"
    /\ state.plan.tasks = <<TaskA, TaskNoFiles>>
    /\ state.tasks_completed = <<"T1", "T2">>
    /\ CreatedBy(CallsOf("Coder")) = <<"b.js">>
    /\ DoneEvaluations = <<[task |-> TaskA, files |-> <<"a.js">>]>>

\* the debug phase has returned
DebuggingOver == pc = "decide" \/ Entered("completed")

C8_IterateDecisionInert ==
    [][/\ pc = "decide" =>
            /\ calls' = calls
            /\ Len(status_trace') > Len(status_trace)
            /\ status_trace'[Len(status_trace) + 1] = "completed"
            /\ pc' \in {"returned", "raised"}
       /\ pc \in {"returned", "raised"} => calls' = calls /\ pc' = pc]_vars

\* A run that decided to iterate, counted it, and completed with the
\* Debugger as the last agent invoked.
C8_Witness ==
    /\ pc = "returned" /\ result.status = "completed"
    /\ ShouldIterate(state.evaluations)
    /\ result.iterations = 1
    /\ calls[Len(calls)].agent = "Debugger"

\* one of the run's evaluations is poor
SomePoorEvaluation ==
    \E i \in 1..Len(state.evaluations) : state.evaluations[i].overall_quality = "poor"

\* C9 as stated: with a poor evaluation the decision is true, the run
\* completes and the returned iterations value is still 0.
C9_Original ==
    (ReturnedNormally /\ SomePoorEvaluation) =>
        /\ ShouldIterate(result.evaluations)
        /\ result.status = "completed"
        /\ result.iterations = 0

\* C9, amended: with a poor evaluation the decision is true, the run
\* completes, and the returned iterations value is 1 when max_iterations
\* is at least 1; it is 0 only under a ceiling of 0.
C9_PoorEvaluationCountsOnce ==
    (ReturnedNormally /\ SomePoorEvaluation) =>
        /\ ShouldIterate(result.evaluations)
        /\ result.success
        /\ result.status = "completed"
        /\ result.iterations = IF max_iterations > 0 THEN 1 ELSE 0

\* The poor evaluation came second, after a good one, and was counted.
C9_Witness ==
    /\ ReturnedNormally
    /\ result.evaluations = <<EvGood, EvPoor>>
    /\ result.status = "completed"
    /\ result.iterations = 1

\* Scenario A: the plan holds T1 and T2 with one file each, every Coder
\* invocation succeeds creating the declared file, every Evaluator
\* invocation returns an evaluation of good quality.
ScenarioA ==
    /\ ReturnedNormally
    /\ state.plan.tasks = <<TaskA, TaskB>>
    /\ \A i \in 1..Len(calls) :
        /\ calls[i].agent = "Coder" =>
                calls[i].outcome = "success" /\ calls[i].out = calls[i].task.files
        /\ calls[i].agent = "Evaluator" => calls[i].outcome = "success"
    /\ \A i \in 1..Len(state.evaluations) :
            state.evaluations[i].overall_quality = "good"

ScenarioAResult ==
    /\ result.success
    /\ result.total_files = 2
    /\ result.tasks_completed = <<"T1", "T2">>
    /\ result.iterations = 0

\* C10 as stated: scenario A ends with success=true, total_files=2,
\* tasks_completed=[T1,T2] and iterations=0.
C10_Original == ScenarioA => ScenarioAResult

\* C10, amended: it does when, besides, no evaluation lists a critical
\* issue and the Debugger reports no fixed file that the coding phase had
\* not created.
C10_ScenarioA ==
    (/\ ScenarioA
     /\ \A i \in 1..Len(state.evaluations) :
            ~InList("critical", state.evaluations[i].issues)
     /\ \A i \in 1..Len(calls) :
            calls[i].agent = "Debugger" =>
                \A k \in 1..Len(calls[i].out) : InList(calls[i].out[k], calls[i].files))
    => ScenarioAResult

\* Scenario A ran through: two evaluations, and a Debugger that rewrote a
\* file already created.
C10_Witness ==
    /\ ScenarioA
    /\ result.evaluations = <<EvGood, EvGood>>
    /\ Len(CallsOf("Debugger")) = 1
    /\ CallsOf("Debugger")[1].out = <<"a.js">>
    /\ ScenarioAResult

----------------------------------------------------------------------------
(* reset() *)

\* two results of execute() that differ in their timing at most
SameButTiming(r1, r2) ==
    [r1 EXCEPT !.duration_seconds = 0] = [r2 EXCEPT !.duration_seconds = 0]

\* C11: whatever calls of execute() came before, reset() puts RunState back
\* to the idle snapshot of a new orchestrator, and the call of execute()
\* that follows, given the same callback and agents that answer as before,
\* goes through the same statuses, makes the same agent calls, sends the
\* same progress events and ends with the same result (timing apart) as
\* the first call on the new orchestrator did.
C11_ResetReproduces ==
    /\ (was_reset /\ pc = "idle") => state = InitState
    /\ (was_reset /\ pc \in {"returned", "raised"}) =>
          /\ pc = previous.pc
          /\ status_trace = previous.status_trace
          /\ calls = previous.calls
          /\ events = previous.events
          /\ raised = previous.raised
          /\ SameButTiming(result, previous.result)

\* reset() came after two calls of execute(), and the call after it
\* completed with files created and evaluations made.
C11_Witness ==
    /\ was_reset
    /\ executes = 2
    /\ pc = "returned"
    /\ result.success
    /\ result.total_files >= 2
    /\ result.evaluations # <<>>
    /\ Len(calls) >= 4

----------------------------------------------------------------------------
(* The Coder's loop *)

\* the Coder has returned after its loop ran into the ceiling: the model
\* asked for tool calls in the last iteration too
ReturnedAtCeiling ==
    /\ coder_pc = "returned"
    /\ last_turn.gateway = "success"
    /\ last_turn.requested > 0

\* the Coder has returned because a gateway call failed
ReturnedOnFailure ==
    /\ coder_pc = "returned"
    /\ last_turn.gateway = "failure"

\* C12: in one invocation of the Coder the number of gateway calls never
\* exceeds 10 (one call in each iteration of the loop), whatever the model
\* answers.
C12_GatewayCallsBounded ==
    /\ gateway_calls <= CoderMaxIterations
    /\ gateway_calls = iteration

\* the model asked for tool calls in each of ten iterations
C12_Witness ==
    /\ coder_pc = "returned"
    /\ gateway_calls = CoderMaxIterations
    /\ last_turn.requested = MaxToolCalls
    /\ Len(created_log) >= CoderMaxIterations

\* C13: when the loop ends at the iteration ceiling the Coder returns
\* success=true with exactly the files created so far, and the
\* orchestrator's coding loop records the task as completed, with those
\* files.
C13_CeilingIsSuccess ==
    ReturnedAtCeiling =>
        /\ iteration = CoderMaxIterations
        /\ coder_result.success
        /\ coder_result.created_files = created_log
        /\ LET c == ApplyCodingResult(Cur, "T1", coder_result)
           IN /\ c.state.tasks_completed = <<"T1">>
              /\ c.state.all_created_files = created_log

C13_Witness ==
    /\ ReturnedAtCeiling
    /\ Len(created_log) >= 3
    /\ created_log[1] = "a.js"
    /\ last_turn.executed = MaxToolCalls

\* C14: when the gateway call of iteration k fails, the Coder returns at
\* once with success=false, the gateway's error and the files created in
\* iterations 1..k-1: no tool was executed in iteration k and the call that
\* failed was the k-th and last gateway call.  The Coder reports a failure
\* in no other case.
C14_GatewayFailureAborts ==
    /\ ReturnedOnFailure =>
          /\ ~coder_result.success
          /\ coder_result.has_error
          /\ coder_result.error \in GatewayErrors
          /\ coder_result.created_files = created_log
          /\ last_turn.executed = 0
          /\ last_turn.iteration = iteration
          /\ gateway_calls = iteration
    /\ (coder_pc = "returned" /\ ~coder_result.success) => ReturnedOnFailure

C14_Witness ==
    /\ ReturnedOnFailure
    /\ iteration = 3
    /\ coder_result.created_files = <<"a.js", "b.js">>

----------------------------------------------------------------------------
(* retry_chat_completion *)

\* C15: retry_chat_completion makes at most max_retries attempts, and it
\* sleeps retry_delay*k between the failed attempt k and attempt k+1
\* (attempts counted from 1): once after each failed attempt but the last
\* one allowed, and never after a success.
C15_LinearBackoff ==
    /\ Len(attempt_log) <= max_retries
    /\ \A k \in 1..Len(sleeps) : sleeps[k] = retry_delay * k
    /\ Len(sleeps) = Cardinality({k \in 1..Len(attempt_log) :
                                    ~attempt_log[k].success /\ k < max_retries})

\* four attempts failed, with three sleeps between them
C15_Witness ==
    /\ retry_pc = "returned"
    /\ Len(attempt_log) = MaxRetries
    /\ retry_delay = 2
    /\ Len(sleeps) = MaxRetries - 1
    /\ sleeps[3] = 6

\* C16: what retry_chat_completion returns is the result of its latest
\* attempt: the result of the first attempt that succeeded, after which no
\* attempt is made, or else the failure of attempt max_retries.
C16_ReturnsLatestAttempt ==
    retry_pc = "returned" =>
        /\ attempt_log # <<>>
        /\ retry_result = attempt_log[Len(attempt_log)]
        /\ \A k \in 1..(Len(attempt_log) - 1) : ~attempt_log[k].success
        /\ ~retry_result.success => Len(attempt_log) = max_retries

\* a success came after two failures with other contents
C16_Witness ==
    /\ retry_pc = "returned"
    /\ Len(attempt_log) = 3
    /\ retry_result = [success |-> TRUE, content |-> "r2"]
    /\ attempt_log[1].content = "r1"
    /\ max_retries > 3

----------------------------------------------------------------------------
(* chat_completion *)

\* the backend answered with a message
Answered == backend.raises = NoExc /\ backend.choices

\* C17 as stated: chat_completion never raises to its caller.
C17_Original == chat_pc # "raised"

\* C17, amended: chat_completion never raises an Exception to its caller.
\* Every Exception met while it calls the backend or reads the response is
\* returned as a failure result: success=false, str(e) as error (a string,
\* which may be empty), no content and an empty tool_calls list; an answer
\* of the backend is a success whatever its tool-call arguments look like.
\* What leaves the call is a BaseException that is no Exception.
C17_FailuresAreReturned ==
    /\ chat_pc = "raised" =>
          chat_raised = backend.raises /\ chat_raised.kind = "BaseException"
    /\ (chat_pc # "idle" /\ backend.raises.kind # "BaseException") => chat_pc = "returned"
    /\ (chat_pc = "returned" /\ ~Answered) =>
          /\ ~chat_result.success
          /\ chat_result.error # NoneStr
          /\ chat_result.error = IF backend.raises # NoExc THEN backend.raises.msg
                                 ELSE IndexError.msg
          /\ chat_result.content = NoneStr
          /\ chat_result.tool_calls = <<>>
    /\ (chat_pc = "returned" /\ Answered) => chat_result.success

\* the response had no choices: reading choices[0] failed
C17_Witness ==
    /\ chat_pc = "returned"
    /\ ~backend.choices
    /\ ~chat_result.success
    /\ chat_result.error = "list index out of range"

\* The string with its raw newlines and carriage returns written escaped
\* where they stand inside a string literal, from the i-th character on.
RECURSIVE WrittenEscaped(_, _, _)
WrittenEscaped(s, i, inside) ==
    IF i > Len(s) THEN <<>>
    ELSE IF ~inside THEN <<s[i]>> \o WrittenEscaped(s, i + 1, s[i] = "Q")
    ELSE IF s[i] = "Q" THEN <<s[i]>> \o WrittenEscaped(s, i + 1, FALSE)
    ELSE IF s[i] \in RawBreaks THEN Escaped(s[i]) \o WrittenEscaped(s, i + 1, TRUE)
    ELSE IF s[i] = "B" /\ i + 1 <= Len(s) /\ s[i + 1] \notin RawBreaks
    THEN <<s[i], s[i + 1]>> \o WrittenEscaped(s, i + 2, TRUE)
    ELSE <<s[i]>> \o WrittenEscaped(s, i + 1, TRUE)

\* the only defect of the string is raw newlines or carriage returns
OnlyRawBreaks(s) ==
    /\ ~JsonLoads(s).ok
    /\ JsonLoads(WrittenEscaped(s, 1, FALSE)).ok

\* C18: a tool call whose argument string has raw newlines or carriage
\* returns as its only defect is surfaced, with the arguments the string
\* decodes to once those characters are written escaped inside its string
\* values.
C18_RepairRecovers ==
    (chat_pc = "returned" /\ Len(backend.tool_calls) = 1
        /\ OnlyRawBreaks(backend.tool_calls[1].arguments)) =>
      chat_result.tool_calls =
        <<[id |-> 1,
           arguments |-> JsonLoads(WrittenEscaped(backend.tool_calls[1].arguments,
                                                  1, FALSE)).value]>>

\* the calls of the message whose arguments parse, at once or after the
\* repair
Parsable(tcs) ==
    SelectSeq(tcs, LAMBDA tc : /\ ~tc.malformed
                               /\ \/ JsonLoads(tc.arguments).ok
                                  \/ JsonLoads(Cleaned(tc.arguments)).ok)

\* C19: when the arguments of a tool call do not parse even after the
\* repair, that call alone is dropped: the response is a success and
\* carries every other call of the message, in the order of the message.
C19_OnlyUnparsableDropped ==
    (chat_pc = "returned" /\ Answered) =>
        /\ chat_result.success
        /\ Len(chat_result.tool_calls) = Len(Parsable(backend.tool_calls))
        /\ \A j \in 1..Len(chat_result.tool_calls) :
              chat_result.tool_calls[j].id = Parsable(backend.tool_calls)[j].id

\* the second of three calls is cut short; the first and the third are
\* surfaced
C19_Witness ==
    /\ chat_pc = "returned"
    /\ Len(backend.tool_calls) = 3
    /\ backend.tool_calls[2].arguments = <<"Q", "n">>
    /\ Len(chat_result.tool_calls) = 2
    /\ chat_result.tool_calls[1].id = 1
    /\ chat_result.tool_calls[2].id = 3
    /\ chat_result.tool_calls[2].arguments = <<"NL">>

----------------------------------------------------------------------------
(* The sandbox *)

\* C20: whatever path they are given, create_file, read_file, list_files
\* and create_directory read, list and write only locations under the
\* registry's base directory.
C20_Sandbox == \A location \in touched : IsPrefix(Base, location)

----------------------------------------------------------------------------
(* The round trip of a file *)

\* C21: read_file of the path a successful create_file has just written
\* succeeds and returns exactly the content that was written.
C21_RoundTrip ==
    (tool_result.tool = "read_file" /\ last_write # NoWrite
        /\ tool_result.path = last_write.path)
    => (tool_result.success /\ tool_result.content = last_write.content)

----------------------------------------------------------------------------
(* Tool failures in the loop of the Coder *)

\* C22: whatever the tool calls of a response are, all of them are
\* executed and answered with a result, and no exception leaves the loop.
C22_ToolFailuresStayInLoop ==
    /\ coder_pc # "raised"
    /\ last_turn.executed = last_turn.requested

----------------------------------------------------------------------------
(* Structured output with and without a fence *)

\* C23: a response that is one fenced block around the text of a JSON
\* object is parsed to what the text alone is parsed to.
C23_FenceMakesNoDifference ==
    (extract_pc # "idle" /\ extract_input.fence # "none")
    => extract_result = Parsed(TextOf(extract_input))

----------------------------------------------------------------------------
(* A callback that raises *)

\* C24: a callback that raises on a progress event does not abort the
\* run: no call of execute() is ended by an exception of the callback,
\* neither as a failed result nor by leaving execute().
C24_CallbackCannotAbort ==
    pc \in {"returned", "raised"} => ~CallbackRaised(Current)

----------------------------------------------------------------------------
(* The progress events of a completed run *)

\* a run with a callback has returned "completed"
CompletedWithCallback ==
    pc = "returned" /\ result.status = "completed" /\ callback

\* the status a progress event is sent under
StatusOfEvent(message) ==
    IF message \in {"fixed", "no_issues"} THEN "debugging" ELSE message

\* the events before the coding tasks of a plan of n tasks
CodingEvents(n) ==
    [k \in 1..n |-> [message |-> "coding", current |-> k, total |-> n]]

Point(message) == [message |-> message, current |-> 0, total |-> 0]

\* the points the events of a run were sent at
PointsOf(evs) ==
    [k \in 1..Len(evs) |-> [message |-> evs[k].message, current |-> evs[k].current,
                            total |-> evs[k].total]]

\* the coding phase created a file
CodingCreatedFiles ==
    \E k \in 1..Len(calls) :
        calls[k].agent = "Coder" /\ calls[k].outcome = "success" /\ calls[k].out # <<>>

\* the events after debugging: one if the Debugger reported success
AfterDebuggingEvents ==
    LET ok == {k \in 1..Len(calls) :
                 calls[k].agent = "Debugger" /\ calls[k].outcome = "success"}
    IN IF ok = {} THEN <<>>
       ELSE IF \E k \in ok : calls[k].out # <<>> THEN <<Point("fixed")>>
       ELSE <<Point("no_issues")>>

----------------------------------------------------------------------------
(* Snapshots *)

\* C26: the tasks_completed, files_created / all_created_files and
\* evaluations read through a dict that get_state() or execute() handed
\* out are, at any later time, what they were when it was handed out.
C26_SnapshotsStay ==
    snap.kind # "none" => Deref(heap, snap.refs) = snap.seen

----------------------------------------------------------------------------
(* The skip flag of the command line *)

\* C27: in a run started with --no-evaluation neither the Evaluator nor
\* the Debugger is invoked.
C27_SkipFlagSkips ==
    no_evaluation =>
        \A k \in 1..Len(calls) : calls[k].agent \notin {"Evaluator", "Debugger"}

----------------------------------------------------------------------------
(* A failed evaluation *)

\* the evaluations the successful calls of the Evaluator returned, in the
\* order of the calls
ReturnedEvaluations ==
    LET ok == SelectSeq(CallsOf("Evaluator"), LAMBDA c : c.outcome = "success")
    IN [k \in 1..Len(ok) |-> ok[k].evaluation]

\* the latest call is one of the Evaluator that reported a failure
EvaluatorJustFailed(cs) ==
    cs # <<>> /\ cs[Len(cs)].agent = "Evaluator" /\ cs[Len(cs)].outcome = "failure"

SomeEvaluationFailed ==
    \E k \in 1..Len(calls) : calls[k].agent = "Evaluator" /\ calls[k].outcome = "failure"

\* C28: evaluations holds exactly the evaluations of the successful
\* Evaluator calls, in invocation order; a call of the Evaluator that
\* fails appends nothing and the loop goes on with the next completed
\* task, or with the debug phase after the last; and in a run with a
\* failed call the Evaluator is still invoked for every completed task
\* that is owed an evaluation.
C28_EvaluationFailureSkipped ==
    /\ [](state.evaluations = ReturnedEvaluations)
    /\ [][(Len(calls') = Len(calls) + 1 /\ EvaluatorJustFailed(calls'))
            => /\ state'.evaluations = state.evaluations
               /\ idx' = idx + 1
               /\ pc' = IF idx < Len(state.tasks_completed) THEN "evaluating"
                        ELSE "debugging"]_vars
    /\ []((EvaluationOver /\ SomeEvaluationFailed)
            => DoneEvaluations = OwedEvaluations(state.tasks_completed, state.plan))

\* The Evaluator failed for the first completed task and succeeded for
\* the second, and the run went on to the debug phase.
C28_Witness ==
    /\ Entered("debugging")
    /\ Len(CallsOf("Evaluator")) = 2
    /\ CallsOf("Evaluator")[1].outcome = "failure"
    /\ CallsOf("Evaluator")[2].outcome = "success"
    /\ state.evaluations = <<CallsOf("Evaluator")[2].evaluation>>

----------------------------------------------------------------------------
(* The merge of the fixed files *)

\* the step is a debug phase whose Debugger reported success and whose
\* merge was reached: the callback did not raise before it
MergeStep ==
    /\ Len(calls') = Len(calls) + 1
    /\ calls'[Len(calls')].agent = "Debugger"
    /\ calls'[Len(calls')].outcome = "success"
    /\ raised' \notin Exceptions

\* how often x stands in s
Count(x, s) == Cardinality({k \in 1..Len(s) : s[k] = x})

\* C29: the merge of the debug phase only appends: the entries
\* all_created_files had before are its beginning after, every path the
\* Debugger reported as fixed is in it, and a path is appended only if it
\* is a fixed path that was not there, and once.
C29_MergeOnlyAppends ==
    [][MergeStep =>
        LET before == state.all_created_files
            after == state'.all_created_files
            fixed_files == calls'[Len(calls')].out
            added == SubSeq(after, Len(before) + 1, Len(after))
        IN /\ IsPrefix(before, after)
           /\ \A k \in 1..Len(fixed_files) : InList(fixed_files[k], after)
           /\ \A k \in 1..Len(added) :
                /\ InList(added[k], fixed_files)
                /\ ~InList(added[k], before)
                /\ Count(added[k], added) = 1]_vars

\* The Debugger reported fix.js twice and the merge is done: the list
\* holds it once, after the files of the coding phase.
C29_Witness ==
    /\ pc = "decide"
    /\ calls[Len(calls)].agent = "Debugger"
    /\ calls[Len(calls)].out = <<"fix.js", "fix.js">>
    /\ Count("fix.js", state.all_created_files) = 1
    /\ Len(state.all_created_files) >= 2

----------------------------------------------------------------------------
(* The should-iterate decision *)

\* an evaluation that asks for another iteration
AsksToIterate(evaluation) ==
    \/ evaluation.overall_quality = "poor"
    \/ \E k \in 1..Len(evaluation.issues) : evaluation.issues[k] = "critical"

\* C30: _should_iterate answers true exactly when an accumulated
\* evaluation is of overall quality "poor" or holds an issue of severity
\* "critical"; it answers false when there is no evaluation, and it leaves
\* RunState as it found it.
C30_ShouldIterate ==
    decision.pc = "returned" =>
        /\ decision.value <=>
              \E k \in 1..Len(state.evaluations) : AsksToIterate(state.evaluations[k])
        /\ state.evaluations = <<>> => ~decision.value
        /\ state = decision.entry

\* The call answered true for evaluations of which only the last asks to
\* iterate, and by an issue alone.
C30_Witness ==
    /\ decision.pc = "returned"
    /\ decision.value
    /\ Len(state.evaluations) = MaxEvaluations
    /\ \A k \in 1..Len(state.evaluations) :
          /\ state.evaluations[k].overall_quality # "poor"
          /\ AsksToIterate(state.evaluations[k]) <=> k = MaxEvaluations

----------------------------------------------------------------------------
(* The transcript of a tool loop *)

\* the ids of the tool calls the assistant messages carry, in order
RECURSIVE Requested(_)
Requested(msgs) ==
    IF msgs = <<>> THEN <<>>
    ELSE (IF Head(msgs).role = "assistant" THEN Head(msgs).tool_calls ELSE <<>>)
         \o Requested(Tail(msgs))

\* the ids of the tool-result messages, in order
RECURSIVE ResultIds(_)
ResultIds(msgs) ==
    IF msgs = <<>> THEN <<>>
    ELSE (IF Head(msgs).role = "tool" THEN <<Head(msgs).tool_call_id>> ELSE <<>>)
         \o ResultIds(Tail(msgs))

\* the results of the assistant message at position p follow it, one for
\* each of its tool calls in order, and the next assistant message comes
\* after them
ResultsFollow(p) ==
    LET ids == messages[p].tool_calls
    IN /\ p + Len(ids) <= Len(messages)
       /\ \A j \in 1..Len(ids) : messages[p + j] = Message("tool", <<>>, ids[j])
       /\ p + Len(ids) < Len(messages) => messages[p + Len(ids) + 1].role = "assistant"

\* every tool call requested so far was executed once, in order, and has
\* its result in the transcript
AllToolCallsAnswered ==
    /\ executions = Requested(messages)
    /\ ResultIds(messages) = Requested(messages)
    /\ \A p \in 1..Len(messages) : messages[p].role = "assistant" => ResultsFollow(p)

\* C31: in the loops of the Coder and the Debugger, whenever the loop is
\* about to call the gateway again or the invocation has ended, every tool
\* call of every turn so far was executed exactly once, in the order
\* requested, and its one result message, keyed by its id, follows the
\* assistant message of its turn; and no step removes or changes a message
\* of the transcript.
C31_ToolCallsAnswered ==
    /\ [](loop_pc \in {"call_model", "ended", "raised"} => AllToolCallsAnswered)
    /\ [][IsPrefix(messages, messages')]_vars

----------------------------------------------------------------------------
(* Termination *)

\* a gateway call of an agent did not return: the agent was interrupted
GatewayInterrupted ==
    pc = "raised" /\ AgentRaised(Current) /\ raised.kind = "BaseException"

\* execute() has returned a result whose status is terminal
ReturnedTerminal == pc = "returned" /\ result.status \in {"completed", "failed"}

\* how the loop of the Coder may have ended
CoderLoopEnded ==
    \/ last_turn.gateway = "failure"
    \/ last_turn.gateway = "success" /\ last_turn.requested = 0
    \/ iteration = CoderMaxIterations

\* how the loop of the Debugger may have ended
DebuggerLoopEnded ==
    \/ debug_turn.gateway = "failure"
    \/ debug_turn.gateway = "success" /\ debug_turn.requested = 0
    \/ debug_iteration = DebuggerMaxIterations

\* C32: unless a gateway call or a tool call fails to return, every run of
\* execute() eventually returns a result with status "completed" or
\* "failed"; the loops of the Coder and the Debugger come to their end, and
\* they end only after a failed gateway call, after a turn without tool
\* calls, or at their ceiling of 10 and 5 iterations.
C32_Terminates ==
    /\ (pc # "idle") ~> (ReturnedTerminal \/ GatewayInterrupted)
    /\ (coder_pc = "loop") ~> (coder_pc \in {"returned", "raised"})
    /\ (debug_pc = "loop") ~> (debug_pc \in {"returned", "raised"})
    /\ [](coder_pc \in {"done", "returned"} => CoderLoopEnded)
    /\ [](debug_pc = "done" \/ (debug_pc = "returned" /\ debug_result.success)
            => DebuggerLoopEnded)
    /\ [](iteration <= CoderMaxIterations /\ debug_iteration <= DebuggerMaxIterations)

----------------------------------------------------------------------------
(* Terminal statuses *)

TerminalStatuses == {"completed", "failed"}

\* the step is a call of reset()
IsReset == ~was_reset /\ was_reset'

\* C33: "completed" and "failed" are terminal: within a run no status is
\* assigned after one of them, and once RunState holds one of them no step
\* other than reset() changes the status.
C33_TerminalStatus ==
    /\ [](\A i \in 1..Len(status_trace) - 1 : status_trace[i] \notin TerminalStatuses)
    /\ [][state.status \in TerminalStatuses /\ state'.status # state.status
            => IsReset]_vars

----------------------------------------------------------------------------
(* The iterations counter *)

\* the runs that have passed their iterate decision since __init__ or
\* reset()
RunsDecided ==
    (IF was_reset THEN 0 ELSE executes) + (IF pc = "returned" THEN 1 ELSE 0)

\* C34: the iterations counter changes only by reset() and by the step of
\* execute() that takes the iterate decision, which adds one when the
\* decision is true and the counter is below max_iterations; after any
\* calls of execute() the counter lies between 0 and max_iterations, and n
\* runs have added at most n to it, one each.
C34_IterationsBounded ==
    /\ [](0 <= state.iterations /\ state.iterations <= max_iterations)
    /\ [](state.iterations <= RunsDecided)
    /\ [][state'.iterations # state.iterations
            => \/ IsReset
               \/ /\ pc = "decide"
                  /\ ShouldIterate(state.evaluations)
                  /\ state.iterations < max_iterations
                  /\ state'.iterations = state.iterations + 1]_vars
    /\ [][pc = "decide" /\ pc' = "returned" /\ ShouldIterate(state.evaluations)
            /\ state.iterations < max_iterations
            => state'.iterations = state.iterations + 1]_vars

\* a second run without reset() has completed with a decision to iterate,
\* and the counter, at its ceiling since the first run, has stayed
C34_Witness ==
    /\ pc = "returned"
    /\ result.status = "completed"
    /\ executes = 1
    /\ ~was_reset
    /\ ShouldIterate(state.evaluations)
    /\ max_iterations = 1
    /\ previous.state.iterations = 1
    /\ state.iterations = 1

----------------------------------------------------------------------------
(* The result of execute() *)

\* the returned result has a terminal status that agrees with its success
StatusMatchesSuccess ==
    /\ result.status \in TerminalStatuses
    /\ result.success <=> result.status = "completed"

\* C35: every result execute() returns has status "completed" or "failed",
\* has success=true exactly when the status is "completed", and carries an
\* error string when success is false.
C35_ResultShape ==
    pc = "returned" =>
        /\ StatusMatchesSuccess
        /\ ~result.success => result.has_error

----------------------------------------------------------------------------
(* The files of the coding phase *)

\* every file the call reported as created is in all_created_files
FilesKept(call) ==
    \A k \in 1..Len(call.out) : InList(call.out[k], state.all_created_files)

\* C36: once the coding phase is over, every path a Coder invocation
\* reported as created (the paths of its create_file calls that succeeded)
\* is in all_created_files, and in files_created of a returned result,
\* whether the invocation ended in success or in failure.
C36_CreatedFilesKept ==
    Entered("evaluating") =>
        /\ \A i \in 1..Len(calls) : calls[i].agent = "Coder" => FilesKept(calls[i])
        /\ pc = "returned" => result.files_created = state.all_created_files

----------------------------------------------------------------------------
(* The Coder's iteration with the gateway's parsing of the message
   (src/agents.py lines 374-451, src/llm_client.py lines 55-119) *)

\* The answers of the backend to one call of the Coder: at most
\* MaxToolCalls tool calls in the message.
TurnBackends == {b \in Backends : Len(b.tool_calls) <= MaxToolCalls}

\* A Coder that ends its loop only when the model asked for no tool.
TurnEndsIfNoneAsked(asked, surfaced) == asked = 0

\* agents.py lines 427-430: `if not response["tool_calls"]: break` looks at
\* the calls the gateway handed over, not at those of the message
TurnEnds(asked, surfaced) == surfaced = <<>>

\* What chat_completion hands back for the answer b: the exception it lets
\* through, or its result.
ChatOutcome(b) ==
    LET e == IF b.raises # NoExc THEN b.raises
             ELSE IF ~b.choices THEN IndexError
             ELSE NoExc
    IN IF e = NoExc
       THEN [raised |-> FALSE, success |-> TRUE, error |-> NoneStr,
             tool_calls |-> SurfaceCalls(b.tool_calls, 1)]
       ELSE IF Caught(e)
       THEN [raised |-> FALSE, success |-> FALSE, error |-> e.msg, tool_calls |-> <<>>]
       ELSE [raised |-> TRUE, success |-> FALSE, error |-> e.msg, tool_calls |-> <<>>]

\* The outcomes of one gateway call, each with the number of tool calls the
\* model's message asked for.
TurnOutcomes ==
    {[asked |-> Len(b.tool_calls), response |-> ChatOutcome(b)] : b \in TurnBackends}

\* agents.py lines 374-451: one iteration, the gateway call ending in one
\* of its outcomes and the calls that reach the Coder being of one kind.
\* `asked` counts the tool calls of the message, `requested` those of the
\* response.
CoderGatewayIteration ==
    /\ coder_pc = "loop"
    /\ LoopGoesOn(iteration)
    /\ iteration' = iteration + 1
    /\ gateway_calls' = gateway_calls + 1
    /\ UNCHANGED outside_coder
    /\ \E o \in TurnOutcomes, kind \in ToolCallKinds :
        LET response == o.response
            batch == [j \in 1..Len(response.tool_calls) |-> kind]
            r == RunTools(batch, iteration + 1, 1)
            turn(g, n, x) == [iteration |-> iteration + 1, gateway |-> g,
                              asked |-> o.asked, requested |-> n,
                              executed |-> x]
        IN IF response.raised
           THEN /\ coder_pc' = "raised"
                /\ last_turn' = turn("raised", 0, 0)
                /\ UNCHANGED <<created_files, created_log, coder_result>>
           ELSE IF ~response.success
           THEN /\ coder_result' = [success |-> FALSE, has_error |-> TRUE,
                                    error |-> response.error,
                                    created_files |-> FailureFiles(created_files),
                                    iterations |-> 0]
                /\ coder_pc' = "returned"
                /\ last_turn' = turn("failure", 0, 0)
                /\ UNCHANGED <<created_files, created_log>>
           ELSE IF TurnEnds(o.asked, response.tool_calls)
           THEN /\ coder_pc' = "done"
                /\ last_turn' = turn("success", 0, 0)
                /\ UNCHANGED <<created_files, created_log, coder_result>>
           ELSE /\ created_files' = created_files \o r.created
                /\ created_log' = created_log \o r.created
                /\ last_turn' = turn("success", Len(batch), r.executed)
                /\ coder_pc' = IF r.raised THEN "raised" ELSE "loop"
                /\ UNCHANGED coder_result

GatewayTurnNext ==
    \/ CoderExecute
    \/ CoderGatewayIteration
    \/ CoderReturn

GatewayTurnSpec == CoderInit /\ [][GatewayTurnNext]_vars

----------------------------------------------------------------------------
(* A turn whose tool calls were all dropped *)

\* the last turn's message asked for tools and none reached the Coder
AllCallsDropped(turn) ==
    /\ turn.gateway = "success"
    /\ turn.asked > 0
    /\ turn.requested = 0

\* the iteration that is taken ends the loop and touches no file
EndsLoopUntouched ==
    /\ coder_pc' = "done"
    /\ last_turn'.executed = 0
    /\ created_files' = created_files
    /\ created_log' = created_log

\* C37: a turn whose requested tool calls were all dropped by the gateway
\* ends the Coder's loop as a turn without tool calls does: no tool is
\* executed and no file added, the Coder returns success=true with the
\* files of the earlier iterations, and the orchestrator's coding loop
\* records the task as completed, also when no file was created.
C37_DroppedTurnEndsLoop ==
    /\ [][iteration' = iteration + 1 /\ AllCallsDropped(last_turn')
            => EndsLoopUntouched]_vars
    /\ [][iteration' = iteration + 1 /\ last_turn'.gateway = "success"
            /\ last_turn'.asked = 0 => EndsLoopUntouched]_vars
    /\ [](coder_pc = "returned" /\ AllCallsDropped(last_turn) =>
            /\ coder_result.success
            /\ coder_result.created_files = created_log
            /\ LET c == ApplyCodingResult(Cur, "T1", coder_result)
               IN /\ c.state.tasks_completed = <<"T1">>
                  /\ c.state.all_created_files = created_log)

\* the first answer of the model asked for MaxToolCalls tools, all of them
\* were dropped, and the Coder has returned success without a file
C37_Witness ==
    /\ coder_pc = "returned"
    /\ AllCallsDropped(last_turn)
    /\ last_turn.asked = MaxToolCalls
    /\ last_turn.iteration = 1
    /\ coder_result.success
    /\ coder_result.created_files = <<>>

----------------------------------------------------------------------------
(* A failed gateway call in the Debugger *)

\* analyze_and_fix has returned after a gateway call that failed
DebuggerReturnedAfterFailedCall ==
    /\ debug_pc = "returned"
    /\ debug_turn.gateway = "failure"

\* all_created_files after _execute_debugging has merged the result
MergedDebugFiles ==
    IF debug_result.success
    THEN MergeFixed(debug_input.files, debug_result.fixed_files)
    ELSE debug_input.files

\* C38: a gateway call that fails in the Debugger's loop is its last one;
\* the Debugger then returns success=true with the fixed_files of the
\* earlier iterations, all of which the orchestrator's merge puts into
\* all_created_files.  The Debugger returns success=false exactly when none
\* of its input files could be read, and then it has made no gateway call.
C38_DebuggerFailedCall ==
    /\ [][debug_turn.gateway = "failure" =>
            /\ debug_calls' = debug_calls
            /\ debug_fixed' = debug_fixed]_vars
    /\ [](DebuggerReturnedAfterFailedCall =>
            /\ debug_result.success
            /\ debug_result.fixed_files = debug_fixed
            /\ debug_calls = debug_turn.iteration
            /\ \A k \in 1..Len(debug_fixed) : InList(debug_fixed[k], MergedDebugFiles))
    /\ [](debug_pc = "returned" =>
            /\ ~debug_result.success <=> debug_input.file_contents = {}
            /\ ~debug_result.success => debug_calls = 0 /\ debug_result.fixed_files = <<>>)

\* the second gateway call failed after an iteration that fixed a file the
\* Debugger was not called with
C38_Witness ==
    /\ DebuggerReturnedAfterFailedCall
    /\ debug_calls = 2
    /\ debug_result.success
    /\ debug_result.fixed_files # <<>>
    /\ ~InList(debug_result.fixed_files[1], debug_input.files)
    /\ InList(debug_result.fixed_files[1], MergedDebugFiles)

\* none of the two input files could be read
C38_WitnessUnreadable ==
    /\ debug_pc = "returned"
    /\ ~debug_result.success
    /\ Len(debug_input.files) = MaxDebugFiles
    /\ debug_calls = 0

----------------------------------------------------------------------------
(* The task the Evaluator is given *)

\* the invocations of the Coder that ended in success, in order: the k-th
\* is the one that recorded the k-th entry of tasks_completed
SuccessfulCoderCalls ==
    SelectSeq(calls, LAMBDA c : c.agent = "Coder" /\ c.outcome = "success")

\* one pass of the evaluation loop is taken
EvaluationPass ==
    /\ pc = "evaluating"
    /\ idx <= Len(state.tasks_completed)

\* C39: whatever the plan (two tasks under one task_id, a task without
\* task_id), the pass of the evaluation loop for the k-th entry of
\* tasks_completed does not raise on its lookup, and an Evaluator invocation
\* it makes is given the task the Coder was invoked with when that entry
\* was recorded.
C39_EvaluatorGetsCodedTask ==
    [][EvaluationPass =>
          /\ raised' # KeyError
          /\ Len(calls') > Len(calls) =>
                calls'[Len(calls')].task = SuccessfulCoderCalls[idx].task]_vars

----------------------------------------------------------------------------
(* A second call of execute() without reset() *)

\* The Planner's answer to a task description it cannot plan.
PlannerFails == [outcome |-> "failure", plan |-> NonePlan, exc |-> NoExc]

\* execute() is called again, without reset(), with another task
\* description, for which the Planner fails.
AgainOtherTask ==
    /\ pc \in {"returned", "raised"}
    /\ ~was_reset
    /\ executes + 1 < MaxExecutes
    /\ stubs.planner # PlannerFails
    /\ stubs' = [stubs EXCEPT !.planner = PlannerFails]
    /\ previous' = IF executes = 0 THEN Current ELSE previous
    /\ executes' = executes + 1
    /\ pc' = "idle"
    /\ idx' = 1
    /\ callback' = FALSE
    /\ result' = NoResult
    /\ raised' = NoExc
    /\ calls' = <<>>
    /\ events' = <<>>
    /\ status_trace' = <<>>
    /\ UNCHANGED <<max_iterations, clock, state, was_reset>>
    /\ UNCHANGED outside_orchestrator

RepeatNext ==
    \/ ExecuteStep
    \/ Again
    \/ AgainOtherTask

RepeatSpec == ReuseInit /\ [][RepeatNext]_vars

\* the evaluations the Evaluator handed back in this call of execute()
OwnEvaluations ==
    LET answered == SelectSeq(calls, LAMBDA c : c.agent = "Evaluator"
                                                 /\ c.outcome = "success")
    IN [k \in 1..Len(answered) |-> answered[k].evaluation]

\* files holds what this call of execute() produced and nothing else: the
\* files of its successful coding tasks, then fixed files of its Debugger
OwnFiles(files) ==
    LET fixes == SelectSeq(calls, LAMBDA c : c.agent = "Debugger"
                                              /\ c.outcome = "success")
        created == CreatedBy(CallsOf("Coder"))
    IN /\ IsPrefix(created, files)
       /\ \A k \in Len(created) + 1..Len(files) :
             fixes # <<>> /\ InList(files[k], fixes[1].out)

\* the iterations this call of execute() counted
OwnIterations ==
    IF Entered("completed") /\ ShouldIterate(OwnEvaluations)
       /\ max_iterations > 0
    THEN 1 ELSE 0

\* the result is that of the run that returned it
ReportsOwnRun ==
    /\ result.tasks_completed = CompletedBy(CallsOf("Coder"), 1)
    /\ OwnFiles(result.files_created)
    /\ result.evaluations = OwnEvaluations
    /\ result.iterations = OwnIterations
    /\ result.has_duration => result.duration_seconds >= 0

\* C40: a call of execute() made on an orchestrator that has run before and
\* was not reset reports its own run only: tasks_completed, files_created,
\* evaluations and iterations of its result are what this call produced,
\* and duration_seconds is absent or not negative.
C40_SecondRunReportsItself ==
    (pc = "returned" /\ executes >= 1 /\ ~was_reset) => ReportsOwnRun

====
